---- MODULE Spec2Model ----
(***************************************************************************)
(* Note classification of the .chart (text) and .mid (MIDI) guitar chart   *)
(* loaders: src/src/NotesLoaderChart.cpp and src/src/NotesLoaderMID.cpp.   *)
(*                                                                         *)
(* SpecChart is parseNoteSection reading one note section record by        *)
(* record; SpecMidi is getGHRBNotesFromTrack walking one instrument track  *)
(* event by event.  The timeline (NoteData) and BeatToNoteRow are not part *)
(* of the sources at hand and are modelled from their interface.           *)
(***************************************************************************)
EXTENDS Integers, Sequences, FiniteSets, TLC

(***************************************************************************)
(* Bounds of the model.                                                    *)
(***************************************************************************)
\* How many records of a note section are read before the closing brace.
MaxRecords == 4

\* Ticks a record of the section may carry (a record never goes back in time).
ChartTicks == {0, 48, 49, 96}
\* Sustain lengths a note record may carry.
ChartLengths == {0, 48}
\* Lanes a note record may name (the state holds all five).
ChartLanes == {0, 1, 2}
\* <<Resolution, HOPO threshold>> pairs handed to parseNoteSection.
ChartParams == {<<192, 48>>, <<4, 1>>}

\* A second alphabet of the text engine: a resolution at which ticks 48 and 49
\* fall on different rows and a length of 1 tick can be shorter than a row.
FineParams == {<<100, 50>>}
FineTicks == {0, 48, 49}
FineLengths == {0, 1}

(***************************************************************************)
(* Program constants.                                                      *)
(***************************************************************************)
\* Rows of the timeline per beat.
ROWS_PER_BEAT == 48
\* Size of iPrevNoteMark, iPrevNoteLength and bPrevNoteHOPO.
NumChartTracks == 5

Abs(x) == IF x < 0 THEN 0 - x ELSE x

(***************************************************************************)
(* The timeline: NoteData and TapNote.                                     *)
(***************************************************************************)
TAP_EMPTY == [type |-> "Empty", iDuration |-> 0]
TAP_ORIGINAL_TAP == [type |-> "Tap", iDuration |-> 0]
TAP_ORIGINAL_HOLD_HEAD == [type |-> "HoldHead", iDuration |-> 0]
TAP_ORIGINAL_GEM == [type |-> "Gem", iDuration |-> 0]
TAP_ORIGINAL_GEM_HOLD == [type |-> "GemHold", iDuration |-> 0]
TAP_ORIGINAL_HOPO == [type |-> "HOPO", iDuration |-> 0]
TAP_ORIGINAL_HOPO_HOLD == [type |-> "HOPOHold", iDuration |-> 0]

\* lrintf(beat * ROWS_PER_BEAT) for beat = tick / res: round to nearest, ties to even.
BeatToNoteRow(tick, res) ==
  LET n == tick * ROWS_PER_BEAT
      q == n \div res
      r == n % res
  IN  IF 2 * r > res THEN q + 1
      ELSE IF 2 * r < res THEN q
      ELSE IF q % 2 = 0 THEN q ELSE q + 1

\* A NoteData is a function from the <<track, row>> places that hold a note.
EmptyNoteData == [p \in {} |-> TAP_EMPTY]

GetTapNote(nd, track, row) ==
  IF <<track, row>> \in DOMAIN nd THEN nd[<<track, row>>] ELSE TAP_EMPTY

SetTapNote(nd, track, row, tn) ==
  IF tn = TAP_EMPTY
  THEN [p \in (DOMAIN nd) \ {<<track, row>>} |-> nd[p]]
  ELSE [p \in (DOMAIN nd) \cup {<<track, row>>} |->
          IF p = <<track, row>> THEN tn ELSE nd[p]]

AddHoldNote(nd, track, startRow, endRow, tn) ==
  SetTapNote(nd, track, startRow, [tn EXCEPT !.iDuration = endRow - startRow])

IsHOPO(tn) == tn.type = "HOPO" \/ tn.type = "HOPOHold"
IsGem(tn) == tn.type = "Gem" \/ tn.type = "GemHold"
IsTap(tn) == tn.type = "Tap" \/ tn.type = "HoldHead"

(***************************************************************************)
(* Text engine: NotesLoaderChart.cpp.                                      *)
(***************************************************************************)
VARIABLES
  resolution,        \* ticks per beat handed to parseNoteSection
  iHopoResolution,   \* HOPO threshold in ticks
  newNotes,          \* the timeline being filled
  iPrevNoteMark,     \* per track: tick of the last note, -1 if none
  iPrevNoteTrack,    \* track of the last note read, -1 if none
  iPrevNoteLength,   \* per track: length of the last note, -1 if none
  bPrevNoteHOPO,     \* per track: whether the last note was emitted as HOPO
  iLastForcedRow,    \* tick of the last forced marker, -1 if none
  iLastTapRow,       \* tick of the last tap marker, -1 if none
  iLastChordRow,     \* tick of the last chord that broke a HOPO, -1 if none
  vsWords,           \* the record read last
  nRead,             \* how many records have been read
  keepReading,       \* FALSE once the closing brace was read
  loc,               \* locals of the last note record's handling
  forcedMarks        \* the ticks of the forced markers read so far, in order

chartVars == <<resolution, iHopoResolution, newNotes, iPrevNoteMark, iPrevNoteTrack,
               iPrevNoteLength, bPrevNoteHOPO, iLastForcedRow, iLastTapRow,
               iLastChordRow, vsWords, nRead, keepReading, loc, forcedMarks>>

VARIABLES
  gd,                \* the GuitarData of the parse
  midNotes,          \* the timeline being filled (newNotes)
  notesInProgress,   \* per key of the difficulty's band: start tick, -1 if none
  curTick,           \* the tick of the event handled last
  diff,              \* the difficulty selected
  charSigned,        \* whether plain char is signed in this build
  processed          \* the notes handed to addGHRBNote so far

midiVars == <<gd, midNotes, notesInProgress, curTick, diff, charSigned, processed>>

VARIABLES
  parser,            \* "chart" or "mid" when an input is parsed twice, else "none"
  tape,              \* the events of the input that the model keeps
  pos,               \* how many events of the tape the track parse has consumed
  pass,              \* 0: a single parse; 1, 2: first and second parse of the tape
  firstNotes         \* the timeline the first parse returned

runVars == <<parser, tape, pos, pass, firstNotes>>

VARIABLES
  ld,                \* a loader call: its position and what it returned
  midFile,           \* the tracks of the MIDI file handed to organizeMidi
  mo,                \* the MidiOrganizer being filled
  trackIdx,          \* the loop index of organizeMidi
  organized          \* whether organizeMidi has returned

orgVars == <<midFile, mo, trackIdx, organized>>

VARIABLES
  rb,                \* ReadBuf: its position, its locals, the lines left to read
  songIni            \* the song.ini next to the chart: "missing" or its [song] keys

bufVars == <<rb, songIni>>

loadVars == <<ld, orgVars, bufVars>>

auxVars == <<runVars, loadVars>>

vars == <<chartVars, midiVars, auxVars>>


ChartTracks == 0 .. (NumChartTracks - 1)

NoWords == [kind |-> "none", tick |-> 0, track |-> -1, len |-> 0]
NoLocals == [fixed |-> FALSE, fixedLen |-> 0, demoted |-> {}, tap |-> FALSE,
             base |-> FALSE, hopo |-> FALSE]

Row(tick) == BeatToNoteRow(tick, resolution)

\* addNote emitting every note without a duration.
addNote_NeverHeld(nd, track, start, end, noteCategory) ==
  IF noteCategory \notin {1, 2, 3} THEN nd
  ELSE SetTapNote(nd, track, start,
                  IF noteCategory = 1 THEN TAP_ORIGINAL_TAP
                  ELSE IF noteCategory = 2 THEN TAP_ORIGINAL_GEM
                  ELSE TAP_ORIGINAL_HOPO)

\* addNote: category 1 tap, 2 gem, 3 hopo; held when end > start.
addNote(nd, track, start, end, noteCategory) ==
  IF noteCategory \notin {1, 2, 3} THEN nd
  ELSE LET singleTapKind == IF noteCategory = 1 THEN TAP_ORIGINAL_TAP
                            ELSE IF noteCategory = 2 THEN TAP_ORIGINAL_GEM
                            ELSE TAP_ORIGINAL_HOPO
           heldTapKind == IF noteCategory = 1 THEN TAP_ORIGINAL_HOLD_HEAD
                          ELSE IF noteCategory = 2 THEN TAP_ORIGINAL_GEM_HOLD
                          ELSE TAP_ORIGINAL_HOPO_HOLD
       IN  IF end > start THEN AddHoldNote(nd, track, start, end, heldTapKind)
           ELSE SetTapNote(nd, track, start, singleTapKind)

\* The category a forced marker re-emits a note of the row with.
ForcedCategory(tn) == IF IsHOPO(tn) THEN 3 ELSE 2

\* The loop of a forced marker over the five tracks of its row.
RECURSIVE ForcedRowLoop(_, _, _)
ForcedRowLoop(nd, l, row) ==
  IF l >= NumChartTracks THEN nd
  ELSE LET tn == GetTapNote(nd, l, row)
       IN  ForcedRowLoop(addNote(nd, l, row, row + tn.iDuration, ForcedCategory(tn)),
                         l + 1, row)

\* TapRowLoop re-emitting every note without a duration.
RECURSIVE TapRowLoop_DropsDuration(_, _, _)
TapRowLoop_DropsDuration(nd, l, row) ==
  IF l >= NumChartTracks THEN nd
  ELSE LET tn == GetTapNote(nd, l, row)
       IN  TapRowLoop_DropsDuration(IF tn # TAP_EMPTY
                                    THEN addNote(nd, l, row, row, 1)
                                    ELSE nd,
                                    l + 1, row)

\* The loop of a tap marker over the five tracks of its row.
RECURSIVE TapRowLoop(_, _, _)
TapRowLoop(nd, l, row) ==
  IF l >= NumChartTracks THEN nd
  ELSE LET tn == GetTapNote(nd, l, row)
       IN  TapRowLoop(IF tn # TAP_EMPTY
                      THEN addNote(nd, l, row, row + tn.iDuration, 1)
                      ELSE nd,
                      l + 1, row)

\* Whether the previous note of the track reaches the new note (sustain correction).
NeedsSustainFix(prevLength, prevMark, iNoteMark) ==
  prevLength + prevMark + 1 >= iNoteMark

\* SustainFixLength shortening by a 64th note instead of a 32nd.
SustainFixLength_Sixteenth(prevMark, iNoteMark, res) ==
  iNoteMark - prevMark - (res \div 16)

\* The corrected length of the previous note.
SustainFixLength(prevMark, iNoteMark, res) ==
  iNoteMark - prevMark - (res \div 8)

\* BreaksHOPO without the tolerance of one tick.
BreaksHOPO_ExactTick(k, iNoteTrack, iNoteMark, hopoFlags, marks) ==
  hopoFlags[k] /\ k # iNoteTrack /\ iNoteMark = marks[k]

\* Whether track k's last note is a HOPO that the new note turns into a chord.
BreaksHOPO(k, iNoteTrack, iNoteMark, hopoFlags, marks) ==
  hopoFlags[k] /\ k # iNoteTrack /\ Abs(iNoteMark - marks[k]) <= 1

\* The chord loop: every HOPO the new note forms a chord with becomes a gem.
RECURSIVE ChordLoop(_, _, _, _, _, _)
ChordLoop(st, k, iNoteTrack, iNoteMark, marks, lengths) ==
  IF k >= NumChartTracks THEN st
  ELSE IF BreaksHOPO(k, iNoteTrack, iNoteMark, st.hopo, marks)
       THEN ChordLoop([nd |-> addNote(st.nd, k, Row(marks[k]),
                                      Row(marks[k] + lengths[k]), 2),
                       hopo |-> [st.hopo EXCEPT ![k] = FALSE],
                       chord |-> iNoteMark,
                       demoted |-> st.demoted \cup {k}],
                      k + 1, iNoteTrack, iNoteMark, marks, lengths)
       ELSE ChordLoop(st, k + 1, iNoteTrack, iNoteMark, marks, lengths)

\* Whether a marker tick covers the note's tick.
OnMarkedRow(markerTick, iNoteMark) ==
  Abs(markerTick - iNoteMark) <= 1 /\ markerTick # -1

\* WithinHOPO measuring against the resolution instead of the HOPO threshold.
WithinHOPO_WholeBeat(k, iNoteTrack, iNoteMark, marks, prevTrack, hopoRes) ==
  /\ Abs(iNoteMark - marks[k]) - 1 <= resolution
  /\ iNoteTrack # prevTrack
  /\ marks[k] # -1

\* WithinHOPO without the test of the track of the note before.
WithinHOPO_AnyTrack(k, iNoteTrack, iNoteMark, marks, prevTrack, hopoRes) ==
  /\ Abs(iNoteMark - marks[k]) - 1 <= hopoRes
  /\ marks[k] # -1

\* WithinHOPO without the slack of one tick.
WithinHOPO_NoSlack(k, iNoteTrack, iNoteMark, marks, prevTrack, hopoRes) ==
  /\ Abs(iNoteMark - marks[k]) <= hopoRes
  /\ iNoteTrack # prevTrack
  /\ marks[k] # -1

\* Whether track k's last note is close enough to make the new note a HOPO.
WithinHOPO(k, iNoteTrack, iNoteMark, marks, prevTrack, hopoRes) ==
  /\ Abs(iNoteMark - marks[k]) - 1 <= hopoRes
  /\ iNoteTrack # prevTrack
  /\ marks[k] # -1

\* ScanHOPO without the test for a note that follows a chord of its own track.
RECURSIVE ScanHOPO_NoChordMemory(_, _, _, _, _, _, _, _)
ScanHOPO_NoChordMemory(k, acc, iNoteTrack, iNoteMark, marks, prevTrack, chordRow, hopoRes) ==
  IF k >= NumChartTracks THEN acc
  ELSE LET acc1 == IF WithinHOPO(k, iNoteTrack, iNoteMark, marks, prevTrack, hopoRes)
                   THEN TRUE ELSE acc
       IN  IF \/ Abs(iNoteMark - marks[k]) <= 1
              \/ (Abs(chordRow - iNoteMark) <= 1 /\ chordRow # -1)
           THEN FALSE
           ELSE ScanHOPO_NoChordMemory(k + 1, acc1, iNoteTrack, iNoteMark, marks,
                                       prevTrack, chordRow, hopoRes)

\* The scan of the five tracks that decides ShouldBeHOPO, from track k on.
RECURSIVE ScanHOPO(_, _, _, _, _, _, _, _)
ScanHOPO(k, acc, iNoteTrack, iNoteMark, marks, prevTrack, chordRow, hopoRes) ==
  IF k >= NumChartTracks THEN acc
  ELSE LET acc1 == IF WithinHOPO(k, iNoteTrack, iNoteMark, marks, prevTrack, hopoRes)
                   THEN TRUE ELSE acc
       IN  IF \/ Abs(iNoteMark - marks[k]) <= 1
              \/ (Abs(chordRow - iNoteMark) <= 1 /\ chordRow # -1)
           THEN FALSE
           ELSE IF /\ prevTrack # -1
                   /\ marks[iNoteTrack] # -1
                   /\ marks[prevTrack] # -1
                   /\ Abs(marks[iNoteTrack] - marks[prevTrack]) <= 1
                   /\ prevTrack # iNoteTrack
           THEN FALSE
           ELSE ScanHOPO(k + 1, acc1, iNoteTrack, iNoteMark, marks, prevTrack,
                         chordRow, hopoRes)

\* ForcedReverse without the tolerance of one tick.
ForcedReverse_ExactTick(shouldBeHOPO, forcedRow, iNoteMark) ==
  IF forcedRow = iNoteMark /\ forcedRow # -1 THEN ~shouldBeHOPO ELSE shouldBeHOPO

\* ForcedReverse reversing after any forced marker, however far back.
ForcedReverse_AnyMarker(shouldBeHOPO, forcedRow, iNoteMark) ==
  IF forcedRow # -1 THEN ~shouldBeHOPO ELSE shouldBeHOPO

\* The decision after the forced-row reversal.
ForcedReverse(shouldBeHOPO, forcedRow, iNoteMark) ==
  IF OnMarkedRow(forcedRow, iNoteMark) THEN ~shouldBeHOPO ELSE shouldBeHOPO

\* parseNoteSection up to its read loop, for <<resolution, threshold>> in params.
ChartInitOver(params) ==
  /\ \E p \in params : resolution = p[1] /\ iHopoResolution = p[2]
  /\ newNotes = EmptyNoteData
  /\ iPrevNoteMark = [i \in ChartTracks |-> -1]
  /\ iPrevNoteTrack = -1
  /\ iPrevNoteLength = [i \in ChartTracks |-> -1]
  /\ bPrevNoteHOPO = [i \in ChartTracks |-> FALSE]
  /\ iLastForcedRow = -1
  /\ iLastTapRow = -1
  /\ iLastChordRow = -1
  /\ vsWords = NoWords
  /\ nRead = 0
  /\ keepReading = TRUE
  /\ loc = NoLocals
  /\ forcedMarks = <<>>

ChartInit == ChartInitOver(ChartParams)

\* A record may be read: the section is open and the record is not before the last.
CanRead(tick) ==
  /\ keepReading
  /\ nRead < MaxRecords
  /\ tick >= vsWords.tick

\* "tick = E *": a forced marker.
ReadForcedEvent(tick) ==
  /\ CanRead(tick)
  /\ iLastForcedRow' = tick
  /\ newNotes' = ForcedRowLoop(newNotes, 0, Row(tick))
  /\ vsWords' = [kind |-> "E*", tick |-> tick, track |-> -1, len |-> 0]
  /\ nRead' = nRead + 1
  /\ loc' = NoLocals
  /\ forcedMarks' = Append(forcedMarks, tick)
  /\ UNCHANGED <<resolution, iHopoResolution, iPrevNoteMark, iPrevNoteTrack,
                 iPrevNoteLength, bPrevNoteHOPO, iLastTapRow, iLastChordRow,
                 keepReading>>
  /\ UNCHANGED <<midiVars, auxVars>>

\* "tick = N 5 len": a forced marker.
ReadForcedNote(tick, len) ==
  /\ CanRead(tick)
  /\ iLastForcedRow' = tick
  /\ newNotes' = ForcedRowLoop(newNotes, 0, Row(tick))
  /\ vsWords' = [kind |-> "N5", tick |-> tick, track |-> 5, len |-> len]
  /\ nRead' = nRead + 1
  /\ loc' = NoLocals
  /\ forcedMarks' = Append(forcedMarks, tick)
  /\ UNCHANGED <<resolution, iHopoResolution, iPrevNoteMark, iPrevNoteTrack,
                 iPrevNoteLength, bPrevNoteHOPO, iLastTapRow, iLastChordRow,
                 keepReading>>
  /\ UNCHANGED <<midiVars, auxVars>>

\* "tick = E T": a tap marker.
ReadTapEvent(tick) ==
  /\ CanRead(tick)
  /\ iLastTapRow' = tick
  /\ newNotes' = TapRowLoop(newNotes, 0, Row(tick))
  /\ vsWords' = [kind |-> "ET", tick |-> tick, track |-> -1, len |-> 0]
  /\ nRead' = nRead + 1
  /\ loc' = NoLocals
  /\ UNCHANGED <<resolution, iHopoResolution, iPrevNoteMark, iPrevNoteTrack,
                 iPrevNoteLength, bPrevNoteHOPO, iLastForcedRow, iLastChordRow,
                 keepReading, forcedMarks>>
  /\ UNCHANGED <<midiVars, auxVars>>

\* "tick = E text": any other event of the section.
ReadOtherEvent(tick) ==
  /\ CanRead(tick)
  /\ vsWords' = [kind |-> "E", tick |-> tick, track |-> -1, len |-> 0]
  /\ nRead' = nRead + 1
  /\ loc' = NoLocals
  /\ UNCHANGED <<resolution, iHopoResolution, newNotes, iPrevNoteMark, iPrevNoteTrack,
                 iPrevNoteLength, bPrevNoteHOPO, iLastForcedRow, iLastTapRow,
                 iLastChordRow, keepReading, forcedMarks>>
  /\ UNCHANGED <<midiVars, auxVars>>

\* "tick = N track len" with a playable track.
ReadNote(iNoteMark, iNoteTrack, iNoteLength) ==
  /\ CanRead(iNoteMark)
  /\ LET prevMark == iPrevNoteMark[iNoteTrack]
         fix == NeedsSustainFix(iPrevNoteLength[iNoteTrack], prevMark, iNoteMark)
         fixLen == SustainFixLength(prevMark, iNoteMark, resolution)
         lengths1 == IF fix THEN [iPrevNoteLength EXCEPT ![iNoteTrack] = fixLen]
                     ELSE iPrevNoteLength
         nd1 == IF fix
                THEN addNote(SetTapNote(newNotes, iNoteTrack, Row(prevMark), TAP_EMPTY),
                             iNoteTrack, Row(prevMark), Row(prevMark + fixLen),
                             IF bPrevNoteHOPO[iNoteTrack] THEN 3 ELSE 2)
                ELSE newNotes
         ch == ChordLoop([nd |-> nd1, hopo |-> bPrevNoteHOPO, chord |-> iLastChordRow,
                          demoted |-> {}],
                         0, iNoteTrack, iNoteMark, iPrevNoteMark, lengths1)
         tap == OnMarkedRow(iLastTapRow, iNoteMark)
         base == ScanHOPO(0, FALSE, iNoteTrack, iNoteMark, iPrevNoteMark,
                          iPrevNoteTrack, ch.chord, iHopoResolution)
         ShouldBeHOPO == ForcedReverse(base, iLastForcedRow, iNoteMark)
         cat == IF tap THEN 1 ELSE IF ShouldBeHOPO THEN 3 ELSE 2
     IN  /\ newNotes' = addNote(ch.nd, iNoteTrack, Row(iNoteMark),
                                Row(iNoteMark + iNoteLength), cat)
         /\ bPrevNoteHOPO' = [ch.hopo EXCEPT ![iNoteTrack] = (~tap /\ ShouldBeHOPO)]
         /\ iLastChordRow' = ch.chord
         /\ iPrevNoteMark' = [iPrevNoteMark EXCEPT ![iNoteTrack] = iNoteMark]
         /\ iPrevNoteTrack' = iNoteTrack
         /\ iPrevNoteLength' = [lengths1 EXCEPT ![iNoteTrack] = iNoteLength]
         /\ loc' = [fixed |-> fix, fixedLen |-> IF fix THEN fixLen ELSE 0,
                    demoted |-> ch.demoted, tap |-> tap,
                    base |-> (~tap /\ base), hopo |-> (~tap /\ ShouldBeHOPO)]
  /\ vsWords' = [kind |-> "N", tick |-> iNoteMark, track |-> iNoteTrack,
                 len |-> iNoteLength]
  /\ nRead' = nRead + 1
  /\ UNCHANGED <<resolution, iHopoResolution, iLastForcedRow, iLastTapRow, keepReading,
                 forcedMarks>>
  /\ UNCHANGED <<midiVars, auxVars>>

\* The closing brace (or the end of the input) ends the section.
EndSection ==
  /\ keepReading
  /\ keepReading' = FALSE
  /\ UNCHANGED <<resolution, iHopoResolution, newNotes, iPrevNoteMark, iPrevNoteTrack,
                 iPrevNoteLength, bPrevNoteHOPO, iLastForcedRow, iLastTapRow,
                 iLastChordRow, vsWords, nRead, loc, forcedMarks>>
  /\ UNCHANGED <<midiVars, auxVars>>

ChartNext ==
  \/ \E t \in ChartTicks : ReadForcedEvent(t)
  \/ \E t \in ChartTicks : ReadForcedNote(t, 0)
  \/ \E t \in ChartTicks : ReadTapEvent(t)
  \/ \E t \in ChartTicks : ReadOtherEvent(t)
  \/ \E t \in ChartTicks, tr \in ChartLanes, len \in ChartLengths : ReadNote(t, tr, len)
  \/ EndSection


(***************************************************************************)
(* MIDI engine: NotesLoaderMID.cpp.                                        *)
(***************************************************************************)
\* Ticks a MIDI event may carry (delta times are not negative, so the ticks of
\* a track never decrease).
MidiTicks == {0, 120, 480}
\* Ticks at which the track starts a note.
NoteOnTicks == {0, 120}
\* Pitches of the note events of the track.
MidiPitches == {96, 97, 99, 101}
\* How many notes the track closes before its event list ends.
MaxMidiNotes == 4
\* <<fret type, HOPO rules, difficulty, whether char is signed, ticks per beat>>
MidiConfigs == { <<"FIVE_FRETS", "GH_HOPO_Rules", "Difficulty_Challenge", FALSE, 480>>,
                 <<"SIX_FRETS", "RB_HOPO_Rules", "Difficulty_Challenge", TRUE, 480>> }

\* System-Exclusive payloads of the track: tap start, tap stop, open start and
\* open stop for Expert, and one of another vendor.
SysexTapStart == <<80, 83, 0, 0, 255, 4, 1, 247>>
SysexTapStop == <<80, 83, 0, 0, 255, 4, 0, 247>>
SysexOpenStart == <<80, 83, 0, 0, 3, 1, 1, 247>>
SysexOpenStop == <<80, 83, 0, 0, 3, 1, 0, 247>>
SysexForeign == <<65, 16, 66, 18, 64, 0, 127, 247>>
SysexPayloads == {SysexTapStart, SysexTapStop, SysexOpenStart, SysexOpenStop, SysexForeign}

NULL == -1

\* The value of byte b read through a (const char *).
CharValue(b, isSigned) == IF isSigned /\ b >= 128 THEN b - 256 ELSE b

\* translateSysex taking an open payload of any difficulty for its own.
translateSysex_AnyDifficulty(pData, d, isSigned) ==
  LET c(i) == CharValue(pData[i + 1], isSigned)
      commHeader == <<80, 83, 0, 0>>
      headerOk == \A i \in 0 .. 3 : c(i) = commHeader[i + 1]
      ret0 == IF c(4) = 255 /\ c(5) = 4 THEN 1
              ELSE IF c(5) = 1 /\ c(4) \in {0, 1, 2, 3}
              THEN 3
              ELSE -1
  IN  IF ~headerOk THEN -1
      ELSE IF ret0 = -1 THEN -1
      ELSE IF c(7) = 247
           THEN IF c(6) = 0 THEN ret0 + 1
                ELSE IF c(6) # 1 THEN -1
                ELSE ret0
           ELSE ret0

\* translateSysex: -1 nothing, 1 tap start, 2 tap stop, 3 open start, 4 open stop.
translateSysex(pData, d, isSigned) ==
  LET c(i) == CharValue(pData[i + 1], isSigned)
      commHeader == <<80, 83, 0, 0>>
      headerOk == \A i \in 0 .. 3 : c(i) = commHeader[i + 1]
      ret0 == IF c(4) = 255 /\ c(5) = 4 THEN 1
              ELSE IF /\ c(5) = 1
                      /\ \/ (c(4) = 0 /\ d = "Difficulty_Easy")
                         \/ (c(4) = 1 /\ d = "Difficulty_Medium")
                         \/ (c(4) = 2 /\ d = "Difficulty_Hard")
                         \/ (c(4) = 3 /\ d = "Difficulty_Challenge")
              THEN 3
              ELSE -1
  IN  IF ~headerOk THEN -1
      ELSE IF ret0 = -1 THEN -1
      ELSE IF c(7) = 247
           THEN IF c(6) = 0 THEN ret0 + 1
                ELSE IF c(6) # 1 THEN -1
                ELSE ret0
           ELSE ret0

\* getNewGuitarData
getNewGuitarData(res, hopoRes, rules, fretType) ==
  LET cols == IF fretType = "FIVE_FRETS" THEN 6 ELSE 7
  IN  [iPrevNoteMark |-> [i \in 0 .. (cols - 1) |-> -1],
       iPrevNoteTrack |-> -1,
       iLastForcedHOPO |-> -1,
       iLastForcedStrum |-> -1,
       iLastChordRow |-> -1,
       iResolution |-> res,
       iHopoResolution |-> hopoRes,
       iCols |-> cols,
       bInTapSection |-> FALSE,
       bInOpenSection |-> FALSE,
       hopoRules |-> rules,
       fretType |-> fretType]

\* getNoteRangeForDifficulty: <<lower, upper>>
getNoteRangeForDifficulty(d, fretType) ==
  LET isGHL == fretType = "SIX_FRETS"
  IN  CASE d = "Difficulty_Easy" -> <<IF isGHL THEN 58 ELSE 60, 66>>
        [] d = "Difficulty_Medium" -> <<IF isGHL THEN 70 ELSE 72, 78>>
        [] d = "Difficulty_Hard" -> <<IF isGHL THEN 82 ELSE 84, 90>>
        [] OTHER -> <<IF isGHL THEN 94 ELSE 96, 102>>

\* placeNote: category 1 tap, 2 gem, 3 hopo; held when end > start.
placeNote(nd, track, start, end, noteCategory) ==
  LET singleTapKind == IF noteCategory = 1 THEN TAP_ORIGINAL_TAP
                       ELSE IF noteCategory = 2 THEN TAP_ORIGINAL_GEM
                       ELSE IF noteCategory = 3 THEN TAP_ORIGINAL_HOPO
                       ELSE TAP_EMPTY
      heldTapKind == IF noteCategory = 1 THEN TAP_ORIGINAL_HOLD_HEAD
                     ELSE IF noteCategory = 2 THEN TAP_ORIGINAL_GEM_HOLD
                     ELSE IF noteCategory = 3 THEN TAP_ORIGINAL_HOPO_HOLD
                     ELSE TAP_EMPTY
  IN  IF end > start THEN AddHoldNote(nd, track, start, end, heldTapKind)
      ELSE SetTapNote(nd, track, start, singleTapKind)

\* The scan of checkHOPOConditions from lane k on: <<ShouldBeHOPO, prevNoteTrack, prevNoteMark>>.
RECURSIVE ScanLanes(_, _, _, _, _)
ScanLanes(k, acc, iNoteTrack, iNoteMark, g) ==
  IF k >= g.iCols THEN acc
  ELSE LET hopo == IF /\ iNoteMark - g.iPrevNoteMark[k] <= g.iHopoResolution
                      /\ iNoteTrack # k
                      /\ g.iPrevNoteMark[k] # -1
                   THEN TRUE ELSE acc[1]
           newer == g.iPrevNoteMark[k] > acc[3]
       IN  ScanLanes(k + 1,
                     <<hopo, IF newer THEN k ELSE acc[2],
                       IF newer THEN g.iPrevNoteMark[k] ELSE acc[3]>>,
                     iNoteTrack, iNoteMark, g)

\* checkHOPOConditions with the lane scan alone under either rule set.
checkHOPOConditions_ScanOnly(iNoteTrack, iNoteMark, g) ==
  IF g.iLastForcedStrum = iNoteMark THEN FALSE
  ELSE IF g.iLastForcedHOPO = iNoteMark /\ g.iLastForcedHOPO # -1 THEN TRUE
  ELSE IF g.iLastChordRow = iNoteMark /\ g.iLastChordRow # -1 THEN FALSE
  ELSE ScanLanes(0, <<FALSE, -1, -1>>, iNoteTrack, iNoteMark, g)[1]

\* checkHOPOConditions
checkHOPOConditions(iNoteTrack, iNoteMark, g) ==
  IF g.iLastForcedStrum = iNoteMark THEN FALSE
  ELSE IF g.iLastForcedHOPO = iNoteMark /\ g.iLastForcedHOPO # -1 THEN TRUE
  ELSE IF g.iLastChordRow = iNoteMark /\ g.iLastChordRow # -1 THEN FALSE
  ELSE LET sc == ScanLanes(0, <<FALSE, -1, -1>>, iNoteTrack, iNoteMark, g)
       IN  IF /\ g.hopoRules = "RB_HOPO_Rules"
              /\ sc[2] # -1
              /\ g.iPrevNoteMark[iNoteTrack] # -1
              /\ sc[3] # -1
              /\ g.iPrevNoteMark[iNoteTrack] = sc[3]
           THEN FALSE
           ELSE sc[1]

\* The forced-HOPO marker taken to be the highest key of the band.
IsForcedHOPOLane_Highest(col, g) == (col = 6 /\ g.iCols = 6) \/ (col = 8 /\ g.iCols = 7)

\* Whether the lane is the forced-HOPO marker of the layout.
IsForcedHOPOLane(col, g) == (col = 5 /\ g.iCols = 6) \/ (col = 7 /\ g.iCols = 7)

\* Whether the lane is the forced-strum marker of the layout.
IsForcedStrumLane(col, g) == (col = 6 /\ g.iCols = 6) \/ (col = 8 /\ g.iCols = 7)

\* The loop of a forced-HOPO marker over its row, from lane i down.
RECURSIVE ForcedHOPOLoop(_, _, _, _, _)
ForcedHOPOLoop(nd, i, foundHighest, taps, startRow) ==
  IF i < 0 THEN nd
  ELSE IF taps[i] = TAP_EMPTY THEN ForcedHOPOLoop(nd, i - 1, foundHighest, taps, startRow)
  ELSE IF foundHighest
       THEN ForcedHOPOLoop(SetTapNote(nd, i, startRow, TAP_EMPTY), i - 1, TRUE, taps, startRow)
       ELSE ForcedHOPOLoop(placeNote(nd, i, startRow, startRow + taps[i].iDuration, 3),
                           i - 1, TRUE, taps, startRow)

\* ForcedStrumLoop placing every strum without a duration.
RECURSIVE ForcedStrumLoop_DropsDuration(_, _, _, _, _)
ForcedStrumLoop_DropsDuration(nd, i, cols, taps, startRow) ==
  IF i >= cols THEN nd
  ELSE IF taps[i] = TAP_EMPTY
       THEN ForcedStrumLoop_DropsDuration(nd, i + 1, cols, taps, startRow)
  ELSE ForcedStrumLoop_DropsDuration(placeNote(nd, i, startRow, startRow, 2),
                                     i + 1, cols, taps, startRow)

\* The loop of a forced-strum marker over its row, from lane i up.
RECURSIVE ForcedStrumLoop(_, _, _, _, _)
ForcedStrumLoop(nd, i, cols, taps, startRow) ==
  IF i >= cols THEN nd
  ELSE IF taps[i] = TAP_EMPTY THEN ForcedStrumLoop(nd, i + 1, cols, taps, startRow)
  ELSE ForcedStrumLoop(placeNote(nd, i, startRow, startRow + taps[i].iDuration, 2),
                       i + 1, cols, taps, startRow)

\* A hold test that also holds a note of exactly half a beat.
RealEnd_AtHalfBeat(start, end, res) ==
  IF end - start >= res \div 2 THEN end - (res \div 8) ELSE start

\* The end tick a note is placed with: shortened when held, its start when not.
RealEnd(start, end, res) ==
  IF end - start > res \div 2 THEN end - (res \div 8) ELSE start

\* The lane of a normal note: the open-strum column in an open section.
NormalLane(col, g) ==
  IF g.bInOpenSection \/ (col = -1 /\ g.iCols = 7) THEN g.iCols - 1 ELSE col

\* A chord row outside a tap section: <<notes, whether the note was placed>>.
PlaceInChord(nd, col, start, startRow, endRow, taps, highestNote, g) ==
  LET wasHopo == IsHOPO(taps[highestNote])
  IN  IF start = g.iLastForcedHOPO
      THEN IF col < highestNote THEN <<nd, FALSE>>
           ELSE <<placeNote(SetTapNote(nd, highestNote, startRow, TAP_EMPTY),
                            col, startRow, endRow, IF wasHopo THEN 3 ELSE 2), TRUE>>
      ELSE <<placeNote(IF wasHopo
                       THEN placeNote(nd, highestNote, startRow,
                                      startRow + taps[highestNote].iDuration, 2)
                       ELSE nd,
                       col, startRow, endRow, 2), TRUE>>

\* addGHRBNote: the timeline and the GuitarData after the call.
addGHRBNote(nd, colIn, start, end, g) ==
  LET realEnd == RealEnd(start, end, g.iResolution)
      col0 == IF g.iCols = 7 /\ colIn < 7 THEN colIn - 1 ELSE colIn
      startRow == BeatToNoteRow(start, g.iResolution)
      endRow == BeatToNoteRow(realEnd, g.iResolution)
      taps == [i \in 0 .. (g.iCols - 1) |-> GetTapNote(nd, i, startRow)]
      present == {i \in 0 .. (g.iCols - 1) : taps[i] # TAP_EMPTY}
      isChordRow == present # {}
      highestNote == IF isChordRow THEN CHOOSE i \in present : \A j \in present : j <= i
                     ELSE -1
  IN  IF IsForcedHOPOLane(col0, g)
      THEN [nd |-> IF isChordRow
                   THEN ForcedHOPOLoop(nd, g.iCols - 1, FALSE, taps, startRow)
                   ELSE nd,
            gd |-> [g EXCEPT !.iLastForcedHOPO = start],
            col |-> col0, placed |-> FALSE]
      ELSE IF IsForcedStrumLane(col0, g)
      THEN [nd |-> IF isChordRow
                   THEN ForcedStrumLoop(nd, 0, g.iCols, taps, startRow)
                   ELSE nd,
            gd |-> [g EXCEPT !.iLastForcedStrum = start],
            col |-> col0, placed |-> FALSE]
      ELSE LET col == NormalLane(col0, g)
               after == [g EXCEPT !.iPrevNoteMark[col] = start, !.iPrevNoteTrack = col]
           IN  IF g.bInTapSection
               THEN [nd |-> placeNote(nd, col, startRow, endRow, 1), gd |-> after,
                     col |-> col, placed |-> TRUE]
               ELSE IF isChordRow
               THEN LET r == PlaceInChord(nd, col, start, startRow, endRow, taps,
                                          highestNote, g)
                    IN  IF r[2]
                        THEN [nd |-> r[1], gd |-> [after EXCEPT !.iLastChordRow = start],
                              col |-> col, placed |-> TRUE]
                        ELSE [nd |-> nd, gd |-> g, col |-> col, placed |-> FALSE]
               ELSE [nd |-> placeNote(nd, col, startRow, endRow,
                                      IF checkHOPOConditions(col, start, g) THEN 3 ELSE 2),
                     gd |-> after, col |-> col, placed |-> TRUE]

\* The section flags after a System-Exclusive event of the given type.
SysexFlags(type, g) ==
  IF type > 2 THEN [g EXCEPT !.bInTapSection = (type % 2 = 1)]
  ELSE IF type > 0 THEN [g EXCEPT !.bInOpenSection = (type % 2 = 1)]
  ELSE g

\* Keys of the difficulty's band: the size of notesInProgress.
NumKeys(fretType) == IF fretType = "FIVE_FRETS" THEN 7 ELSE 9


\* The state of the text engine while a MIDI track is parsed.
ChartIdle ==
  /\ resolution = 192 /\ iHopoResolution = 48
  /\ newNotes = EmptyNoteData
  /\ iPrevNoteMark = [i \in ChartTracks |-> -1]
  /\ iPrevNoteTrack = -1
  /\ iPrevNoteLength = [i \in ChartTracks |-> -1]
  /\ bPrevNoteHOPO = [i \in ChartTracks |-> FALSE]
  /\ iLastForcedRow = -1
  /\ iLastTapRow = -1
  /\ iLastChordRow = -1
  /\ vsWords = NoWords
  /\ nRead = 0
  /\ keepReading = TRUE
  /\ loc = NoLocals
  /\ forcedMarks = <<>>

\* The state of the MIDI engine while a note section is parsed.
MidiIdle ==
  /\ gd = getNewGuitarData(480, 170, "GH_HOPO_Rules", "FIVE_FRETS")
  /\ midNotes = EmptyNoteData
  /\ notesInProgress = [i \in 0 .. 6 |-> NULL]
  /\ curTick = 0
  /\ diff = "Difficulty_Challenge"
  /\ charSigned = FALSE
  /\ processed = {}

\* The MidiOrganizer before any track is looked at; a track pointer is the
\* index of the track it points into.
NewOrganizer ==
  [guitarTrack |-> NULL, bassTrack |-> NULL, drumTrack |-> NULL,
   vocalTrack |-> NULL, eventTrack |-> NULL, beatTrack |-> NULL,
   venueTrack |-> NULL, otherTrack |-> NULL,
   HOPOType |-> "Unknown_Rules", FretType |-> "FIVE_FRETS"]

\* organizeMidi is not running.
OrgIdle ==
  /\ midFile = <<>>
  /\ mo = NewOrganizer
  /\ trackIdx = -1
  /\ organized = FALSE

\* No input is parsed twice.
RunIdle ==
  /\ parser = "none"
  /\ tape = <<>>
  /\ pos = 0
  /\ pass = 0
  /\ firstNotes = EmptyNoteData

\* ReadBuf at position pc with its locals as declared, no line read and no
\* steps loaded.
NewReadBuf(pc) ==
  [pc |-> pc, resolution |-> 192, iHopoResolution |-> 120, nLines |-> 0,
   nResolution |-> 0, parseSongInfo |-> TRUE, nSections |-> 0, loaded |-> FALSE,
   steps |-> EmptyNoteData]

\* ReadBuf is not running: its locals hold their initial values.
BufIdle ==
  /\ rb = NewReadBuf("idle")
  /\ songIni = [exists |-> FALSE, hopofreq |-> {}, eighthnote_hopo |-> {}]

\* No loader entry point is called.
NoLoaderCall ==
  ld = [fn |-> "none", file |-> "ok", stepsType |-> "StepsType_guitar_solo",
        pc |-> "idle", mf |-> "none", ret |-> "none"]

\* No loader is called.
LoadIdle ==
  /\ NoLoaderCall
  /\ OrgIdle
  /\ BufIdle

AuxIdle == RunIdle /\ LoadIdle

\* getGHRBNotesFromTrack up to its event loop; the threshold is that of
\* LoadFromDir: a third of the resolution plus 10.
MidiInitOver(configs) ==
  /\ \E c \in configs :
        /\ gd = getNewGuitarData(c[5], (c[5] \div 3) + 10, c[2], c[1])
        /\ notesInProgress = [i \in 0 .. (NumKeys(c[1]) - 1) |-> NULL]
        /\ diff = c[3]
        /\ charSigned = c[4]
  /\ midNotes = EmptyNoteData
  /\ curTick = 0
  /\ processed = {}

MidiInit == MidiInitOver(MidiConfigs)

\* An event may be handled: the track has more events and ticks do not decrease.
CanHandle(tick) ==
  /\ Cardinality(processed) < MaxMidiNotes
  /\ tick >= curTick

Low == getNoteRangeForDifficulty(diff, gd.fretType)[1]
High == getNoteRangeForDifficulty(diff, gd.fretType)[2]

\* A System-Exclusive event.
OnSysex(tick, pData) ==
  /\ CanHandle(tick)
  /\ gd' = SysexFlags(translateSysex(pData, diff, charSigned), gd)
  /\ curTick' = tick
  /\ UNCHANGED <<midNotes, notesInProgress, diff, charSigned, processed>>

HandleSysex(tick, pData) ==
  OnSysex(tick, pData) /\ UNCHANGED <<chartVars, auxVars>>

\* A note-on event with a velocity above 0.
OnNoteOn(tick, note) ==
  /\ CanHandle(tick)
  /\ LET idx == note - Low
     IN  notesInProgress' =
           IF idx >= 0 /\ note <= High /\ notesInProgress[idx] = NULL
           THEN [notesInProgress EXCEPT ![idx] = tick]
           ELSE notesInProgress
  /\ curTick' = tick
  /\ UNCHANGED <<gd, midNotes, diff, charSigned, processed>>

HandleNoteOn(tick, note) ==
  OnNoteOn(tick, note) /\ UNCHANGED <<chartVars, auxVars>>

\* A note-off event, or a note-on event with velocity 0.
OnNoteOff(tick, note) ==
  /\ CanHandle(tick)
  /\ LET idx == note - Low
         closes == /\ idx >= 0 /\ note <= High
                   /\ notesInProgress[idx] # NULL
                   /\ tick > notesInProgress[idx]
     IN  IF closes
         THEN LET start == notesInProgress[idx]
                  r == addGHRBNote(midNotes, idx, start, tick, gd)
                  call == [idx |-> idx, start |-> start, tap |-> gd.bInTapSection,
                           open |-> gd.bInOpenSection]
              IN  /\ midNotes' = r.nd
                  /\ gd' = r.gd
                  /\ notesInProgress' = [notesInProgress EXCEPT ![idx] = NULL]
                  /\ processed' = processed \cup {call}
         ELSE UNCHANGED <<midNotes, gd, notesInProgress, processed>>
  /\ curTick' = tick
  /\ UNCHANGED <<diff, charSigned>>

HandleNoteOff(tick, note) ==
  OnNoteOff(tick, note) /\ UNCHANGED <<chartVars, auxVars>>

MidiNext ==
  \/ \E t \in MidiTicks, p \in SysexPayloads : HandleSysex(t, p)
  \/ \E t \in NoteOnTicks, n \in MidiPitches : HandleNoteOn(t, n)
  \/ \E t \in MidiTicks, n \in MidiPitches : HandleNoteOff(t, n)

\* A MIDI track is parsed; no note section is.
MidiStart == MidiInit /\ ChartIdle /\ AuxIdle

\* A note section is parsed; no MIDI track is.
ChartStart == ChartInit /\ MidiIdle /\ AuxIdle

SpecMidi == MidiStart /\ [][MidiNext]_vars

\* A track at a resolution of 8 ticks per beat, where the integer divisions of
\* the hold test matter: half a beat is 4 ticks, an eighth is 1.
MidiFineConfigs ==
  {<<"FIVE_FRETS", "GH_HOPO_Rules", "Difficulty_Challenge", FALSE, 8>>}
MidiFineTicks == {0, 4, 5, 9}
MidiFineOnTicks == {0, 4}
MidiFinePitches == {96, 97, 101}
MidiFinePayloads == {SysexTapStart, SysexOpenStart}

MidiFineStart == MidiInitOver(MidiFineConfigs) /\ ChartIdle /\ AuxIdle

MidiFineNext ==
  \/ \E t \in MidiFineTicks, p \in MidiFinePayloads : HandleSysex(t, p)
  \/ \E t \in MidiFineOnTicks, n \in MidiFinePitches : HandleNoteOn(t, n)
  \/ \E t \in MidiFineTicks, n \in MidiFinePitches : HandleNoteOff(t, n)

SpecMidiFine == MidiFineStart /\ [][MidiFineNext]_vars

SpecChart == ChartStart /\ [][ChartNext]_vars

\* The text engine over the second alphabet.
ChartFineStart == ChartInitOver(FineParams) /\ MidiIdle /\ AuxIdle

ChartFineNext ==
  \/ \E t \in FineTicks : ReadForcedEvent(t)
  \/ \E t \in FineTicks : ReadForcedNote(t, 0)
  \/ \E t \in FineTicks : ReadTapEvent(t)
  \/ \E t \in FineTicks : ReadOtherEvent(t)
  \/ \E t \in FineTicks, tr \in ChartLanes, len \in FineLengths : ReadNote(t, tr, len)
  \/ EndSection

SpecChartFine == ChartFineStart /\ [][ChartFineNext]_vars

\* The text engine around the HOPO threshold: at 48 ticks per beat the
\* threshold is 12, and the gaps between the ticks are 1, 2, 13, 14, 15 and 16.
EdgeParams == {<<48, 12>>}
EdgeTicks == {0, 2, 15, 16}
EdgeLengths == {0}

ChartEdgeStart == ChartInitOver(EdgeParams) /\ MidiIdle /\ AuxIdle

ChartEdgeNext ==
  \/ \E t \in EdgeTicks : ReadForcedEvent(t)
  \/ \E t \in EdgeTicks : ReadTapEvent(t)
  \/ \E t \in EdgeTicks, tr \in ChartLanes, len \in EdgeLengths : ReadNote(t, tr, len)
  \/ EndSection

SpecChartEdge == ChartEdgeStart /\ [][ChartEdgeNext]_vars

(***************************************************************************)
(* The text engine over sections with short, blank and brace lines.        *)
(***************************************************************************)
RawTicks == {0, 48}
RawLanes == {0, 1}
RawLengths == {0, 48}
\* Lines that lack a field their record reads: fewer than three words
\* ("0 ="), "0 = E", "0 = N" and "0 = N 1".
ShortKinds == {"words", "E", "N", "Nlane"}

\* A line with fewer words than its record reads. vsWords[2], vsWords[3] or
\* vsWords[4] is read past the end of the vector without a size check: the
\* read faults, or it yields a string that matches no record and the line is
\* passed over, or (for the length of a note) it yields some number.
ReadShortLine(tick, short, lane) ==
  /\ CanRead(tick)
  /\ \/ /\ vsWords' = [kind |-> "fault", tick |-> tick, track |-> -1, len |-> 0]
        /\ keepReading' = FALSE
        /\ nRead' = nRead + 1
        /\ loc' = NoLocals
        /\ UNCHANGED <<resolution, iHopoResolution, newNotes, iPrevNoteMark,
                       iPrevNoteTrack, iPrevNoteLength, bPrevNoteHOPO, iLastForcedRow,
                       iLastTapRow, iLastChordRow, forcedMarks>>
        /\ UNCHANGED <<midiVars, auxVars>>
     \/ /\ short # "Nlane"
        /\ vsWords' = [kind |-> "short", tick |-> tick, track |-> -1, len |-> 0]
        /\ nRead' = nRead + 1
        /\ loc' = NoLocals
        /\ UNCHANGED <<resolution, iHopoResolution, newNotes, iPrevNoteMark,
                       iPrevNoteTrack, iPrevNoteLength, bPrevNoteHOPO, iLastForcedRow,
                       iLastTapRow, iLastChordRow, keepReading, forcedMarks>>
        /\ UNCHANGED <<midiVars, auxVars>>
     \/ /\ short = "Nlane"
        /\ \E len \in RawLengths : ReadNote(tick, lane, len)

\* A line without words that is followed by more lines of the section: the
\* loop takes it for the end of the input.
ReadBlankLine ==
  /\ keepReading
  /\ keepReading' = FALSE
  /\ vsWords' = [vsWords EXCEPT !.kind = "blank"]
  /\ UNCHANGED <<resolution, iHopoResolution, newNotes, iPrevNoteMark, iPrevNoteTrack,
                 iPrevNoteLength, bPrevNoteHOPO, iLastForcedRow, iLastTapRow,
                 iLastChordRow, nRead, loc, forcedMarks>>
  /\ UNCHANGED <<midiVars, auxVars>>

\* A line that starts with an opening brace.
ReadOpenBrace ==
  /\ keepReading
  /\ vsWords' = [vsWords EXCEPT !.kind = "{"]
  /\ UNCHANGED <<resolution, iHopoResolution, newNotes, iPrevNoteMark, iPrevNoteTrack,
                 iPrevNoteLength, bPrevNoteHOPO, iLastForcedRow, iLastTapRow,
                 iLastChordRow, nRead, keepReading, loc, forcedMarks>>
  /\ UNCHANGED <<midiVars, auxVars>>

ChartRawStart == ChartInit /\ MidiIdle /\ AuxIdle

ChartRawNext ==
  \/ \E t \in RawTicks : ReadForcedEvent(t)
  \/ \E t \in RawTicks : ReadForcedNote(t, 0)
  \/ \E t \in RawTicks : ReadTapEvent(t)
  \/ \E t \in RawTicks : ReadOtherEvent(t)
  \/ \E t \in RawTicks, tr \in RawLanes, len \in RawLengths : ReadNote(t, tr, len)
  \/ \E t \in RawTicks, k \in ShortKinds, tr \in RawLanes : ReadShortLine(t, k, tr)
  \/ ReadBlankLine
  \/ ReadOpenBrace
  \/ EndSection

SpecChartRaw == ChartRawStart /\ [][ChartRawNext]_vars

(***************************************************************************)
(* The text engine over note records whose lane is none of 0..5.           *)
(***************************************************************************)
LaneTicks == {0, 48}
LaneLengths == {0}
\* Lanes of a note record other than the five tracks and the marker lane 5.
StrayLanes == {-1, 6, 7}

\* "tick = N lane len" with a lane of the five tracks, after note records of
\* the five tracks only.
ReadTrackNote(tick, lane, len) ==
  /\ iPrevNoteTrack \in ChartTracks \cup {-1}
  /\ ReadNote(tick, lane, len)

\* "tick = N lane len" with a lane that is none of 0..5. Only `iNoteTrack == 5`
\* is tested before iPrevNoteLength[iNoteTrack], iPrevNoteMark[iNoteTrack] and
\* bPrevNoteHOPO[iNoteTrack] are read and written; the vectors have five
\* elements and the timeline six tracks. The access outside them faults, or
\* it goes through: then the chord loop runs over the five tracks, the note
\* and its state land outside them, and iPrevNoteTrack takes the lane.
ReadStrayNote(tick, lane, len) ==
  /\ CanRead(tick)
  /\ lane \notin ChartTracks /\ lane # 5
  /\ nRead' = nRead + 1
  /\ loc' = NoLocals
  /\ \/ /\ vsWords' = [kind |-> "fault", tick |-> tick, track |-> lane, len |-> len]
        /\ keepReading' = FALSE
        /\ UNCHANGED <<newNotes, bPrevNoteHOPO, iLastChordRow, iPrevNoteTrack>>
     \/ /\ vsWords' = [kind |-> "N", tick |-> tick, track |-> lane, len |-> len]
        /\ LET ch == ChordLoop([nd |-> newNotes, hopo |-> bPrevNoteHOPO,
                                chord |-> iLastChordRow, demoted |-> {}],
                               0, lane, tick, iPrevNoteMark, iPrevNoteLength)
           IN  /\ newNotes' = ch.nd
               /\ bPrevNoteHOPO' = ch.hopo
               /\ iLastChordRow' = ch.chord
        /\ iPrevNoteTrack' = lane
        /\ UNCHANGED keepReading
  /\ UNCHANGED <<resolution, iHopoResolution, iPrevNoteMark, iPrevNoteLength,
                 iLastForcedRow, iLastTapRow, forcedMarks>>
  /\ UNCHANGED <<midiVars, auxVars>>

ChartLaneStart == ChartInit /\ MidiIdle /\ AuxIdle

ChartLaneNext ==
  \/ \E t \in LaneTicks : ReadForcedEvent(t)
  \/ \E t \in LaneTicks : ReadTapEvent(t)
  \/ \E t \in LaneTicks, tr \in RawLanes, len \in LaneLengths : ReadTrackNote(t, tr, len)
  \/ \E t \in LaneTicks, tr \in StrayLanes, len \in LaneLengths : ReadStrayNote(t, tr, len)
  \/ EndSection

SpecChartLanes == ChartLaneStart /\ [][ChartLaneNext]_vars

(***************************************************************************)
(* The same input parsed twice with the same parameters.                   *)
(***************************************************************************)
\* The longest input parsed twice.
MaxTape == 3
TapeTicks == {0, 48}
TapeLanes == {0, 1}
TapeMidiTicks == {0, 120, 480}
TapePitches == {96, 101}

\* Section lines: forced markers, tap markers and notes.
ChartLines ==
  {[kind |-> k, tick |-> t, track |-> -1, len |-> 0] : k \in {"E*", "ET"}, t \in TapeTicks}
  \cup {[kind |-> "N", tick |-> t, track |-> tr, len |-> 0] : t \in TapeTicks, tr \in TapeLanes}

\* Track events: note-on, note-off and the tap-start System-Exclusive event.
MidiEvents ==
  {[kind |-> k, tick |-> t, note |-> n, pData |-> <<>>] :
      k \in {"on", "off"}, t \in TapeMidiTicks, n \in TapePitches}
  \cup {[kind |-> "sysex", tick |-> t, note |-> 0, pData |-> SysexTapStart] : t \in TapeMidiTicks}

\* The inputs over an alphabet, their ticks not decreasing.
TapesOver(alphabet) ==
  {s \in UNION {[1 .. n -> alphabet] : n \in 0 .. MaxTape} :
      \A i \in 1 .. (Len(s) - 1) : s[i].tick <= s[i + 1].tick}

\* The caller hands an input to parseNoteSection or to getGHRBNotesFromTrack.
ReparseStart ==
  /\ \/ parser = "chart" /\ ChartInit /\ MidiIdle /\ tape \in TapesOver(ChartLines)
     \/ parser = "mid" /\ MidiInit /\ ChartIdle /\ tape \in TapesOver(MidiEvents)
  /\ pos = 0
  /\ pass = 1
  /\ firstNotes = EmptyNoteData
  /\ LoadIdle

\* The next line of the section is of the given kind.
HasLine(kind) ==
  /\ parser = "chart"
  /\ nRead < Len(tape)
  /\ tape[nRead + 1].kind = kind

NextLine == tape[nRead + 1]

\* The next event of the track is of the given kind.
HasEvent(kind) ==
  /\ parser = "mid"
  /\ pos < Len(tape)
  /\ tape[pos + 1].kind = kind

NextEvent == tape[pos + 1]

\* The closing brace follows the last line of the input.
ReplayEndSection ==
  /\ parser = "chart"
  /\ nRead = Len(tape)
  /\ EndSection

\* A second call that would find iLastForcedRow as the first call left it.
StartSection_KeepsForcedRow ==
  /\ parser = "chart" /\ pass = 1 /\ ~keepReading
  /\ firstNotes' = newNotes
  /\ pass' = 2
  /\ newNotes' = EmptyNoteData
  /\ iPrevNoteMark' = [i \in ChartTracks |-> -1]
  /\ iPrevNoteTrack' = -1
  /\ iPrevNoteLength' = [i \in ChartTracks |-> -1]
  /\ bPrevNoteHOPO' = [i \in ChartTracks |-> FALSE]
  /\ iLastTapRow' = -1
  /\ iLastChordRow' = -1
  /\ vsWords' = NoWords
  /\ nRead' = 0
  /\ keepReading' = TRUE
  /\ loc' = NoLocals
  /\ forcedMarks' = <<>>
  /\ UNCHANGED <<resolution, iHopoResolution, iLastForcedRow, parser, tape, pos>>
  /\ UNCHANGED <<midiVars, loadVars>>

\* parseNoteSection is called again with the same input and parameters: the
\* first call's timeline was returned by value, and every local is created anew.
StartSection ==
  /\ parser = "chart" /\ pass = 1 /\ ~keepReading
  /\ firstNotes' = newNotes
  /\ pass' = 2
  /\ newNotes' = EmptyNoteData
  /\ iPrevNoteMark' = [i \in ChartTracks |-> -1]
  /\ iPrevNoteTrack' = -1
  /\ iPrevNoteLength' = [i \in ChartTracks |-> -1]
  /\ bPrevNoteHOPO' = [i \in ChartTracks |-> FALSE]
  /\ iLastForcedRow' = -1
  /\ iLastTapRow' = -1
  /\ iLastChordRow' = -1
  /\ vsWords' = NoWords
  /\ nRead' = 0
  /\ keepReading' = TRUE
  /\ loc' = NoLocals
  /\ forcedMarks' = <<>>
  /\ UNCHANGED <<resolution, iHopoResolution, parser, tape, pos>>
  /\ UNCHANGED <<midiVars, loadVars>>

ReplaySysex ==
  /\ HasEvent("sysex")
  /\ OnSysex(NextEvent.tick, NextEvent.pData)
  /\ pos' = pos + 1
  /\ UNCHANGED <<parser, tape, pass, firstNotes>>
  /\ UNCHANGED <<chartVars, loadVars>>

ReplayNoteOn ==
  /\ HasEvent("on")
  /\ OnNoteOn(NextEvent.tick, NextEvent.note)
  /\ pos' = pos + 1
  /\ UNCHANGED <<parser, tape, pass, firstNotes>>
  /\ UNCHANGED <<chartVars, loadVars>>

ReplayNoteOff ==
  /\ HasEvent("off")
  /\ OnNoteOff(NextEvent.tick, NextEvent.note)
  /\ pos' = pos + 1
  /\ UNCHANGED <<parser, tape, pass, firstNotes>>
  /\ UNCHANGED <<chartVars, loadVars>>

\* getGHRBNotesFromTrack is called again with the same track and parameters.
StartTrack ==
  /\ parser = "mid" /\ pass = 1 /\ pos = Len(tape)
  /\ firstNotes' = midNotes
  /\ pass' = 2
  /\ pos' = 0
  /\ midNotes' = EmptyNoteData
  /\ notesInProgress' = [i \in DOMAIN notesInProgress |-> NULL]
  /\ gd' = getNewGuitarData(gd.iResolution, gd.iHopoResolution, gd.hopoRules, gd.fretType)
  /\ curTick' = 0
  /\ processed' = {}
  /\ UNCHANGED <<diff, charSigned, parser, tape>>
  /\ UNCHANGED <<chartVars, loadVars>>

ReplayForcedEvent == HasLine("E*") /\ ReadForcedEvent(NextLine.tick)

ReplayTapEvent == HasLine("ET") /\ ReadTapEvent(NextLine.tick)

ReplayNote == HasLine("N") /\ ReadNote(NextLine.tick, NextLine.track, NextLine.len)

ReparseNext ==
  \/ ReplayForcedEvent
  \/ ReplayTapEvent
  \/ ReplayNote
  \/ ReplayEndSection
  \/ StartSection
  \/ ReplaySysex
  \/ ReplayNoteOn
  \/ ReplayNoteOff
  \/ StartTrack

SpecReparse == ReparseStart /\ [][ReparseNext]_vars

(***************************************************************************)
(* Tracks of both layouts with both marker keys.                           *)
(***************************************************************************)
MarkerConfigs ==
  {<<"FIVE_FRETS", "GH_HOPO_Rules", "Difficulty_Challenge", FALSE, 8>>,
   <<"SIX_FRETS", "GH_HOPO_Rules", "Difficulty_Challenge", FALSE, 8>>}
MarkerTicks == {0, 4, 5}
MarkerOnTicks == {0, 4}
MarkerOffTicks == {4, 5}
\* Offsets into the difficulty's band: two frets and the two highest keys of
\* either layout.
MarkerKeys == {1, 5, 6, 7, 8}

MarkerStart == MidiInitOver(MarkerConfigs) /\ ChartIdle /\ AuxIdle

MarkerNext ==
  \/ \E t \in MarkerTicks : HandleSysex(t, SysexOpenStart)
  \/ \E t \in MarkerOnTicks, k \in MarkerKeys : HandleNoteOn(t, Low + k)
  \/ \E t \in MarkerOffTicks, k \in MarkerKeys : HandleNoteOff(t, Low + k)

SpecMarkers == MarkerStart /\ [][MarkerNext]_vars

\* The same five-fret track under the first-game and the second-game rules,
\* without markers or sections.
RuleConfigs ==
  {<<"FIVE_FRETS", "GH_HOPO_Rules", "Difficulty_Challenge", FALSE, 8>>,
   <<"FIVE_FRETS", "RB_HOPO_Rules", "Difficulty_Challenge", FALSE, 8>>}
RuleTicks == {0, 4, 5, 9}
RuleOnTicks == {0, 4, 5}
RulePitches == {96, 97, 98}

RuleStart == MidiInitOver(RuleConfigs) /\ ChartIdle /\ AuxIdle

RuleNext ==
  \/ \E t \in RuleOnTicks, n \in RulePitches : HandleNoteOn(t, n)
  \/ \E t \in RuleTicks, n \in RulePitches : HandleNoteOff(t, n)

SpecRules == RuleStart /\ [][RuleNext]_vars

(***************************************************************************)
(* A track of System-Exclusive events of every shape.                      *)
(***************************************************************************)
\* Headers: the one translateSysex looks for, one that differs in its last
\* byte and one that differs in a first byte above 0x7F.
SysexHeaders == {<<80, 83, 0, 0>>, <<80, 83, 0, 1>>, <<208, 83, 0, 0>>}
\* Bytes 4 and 5: the difficulty (or 0xFF) and the type.
SysexDiffBytes == {0, 3, 255}
SysexTypeBytes == {1, 4}
\* Bytes 6 and 7: on/off and the end of the message.
SysexOnOffBytes == {0, 1, 2}
SysexEndBytes == {247, 0}

AllSysexPayloads ==
  {h \o <<b4, b5, b6, b7>> :
      h \in SysexHeaders, b4 \in SysexDiffBytes, b5 \in SysexTypeBytes,
      b6 \in SysexOnOffBytes, b7 \in SysexEndBytes}

SysexConfigs ==
  {<<"FIVE_FRETS", "GH_HOPO_Rules", d, sgn, 480>> :
      d \in {"Difficulty_Easy", "Difficulty_Challenge"}, sgn \in BOOLEAN}

\* The pitch of the track's notes: the third key of the difficulty's band.
SysexTrackPitch == Low + 2

\* The difficulty byte of an open-note payload for difficulty d.
DifficultyByte(d) ==
  CASE d = "Difficulty_Easy" -> 0
    [] d = "Difficulty_Medium" -> 1
    [] d = "Difficulty_Hard" -> 2
    [] OTHER -> 3

SysexStart ==
  /\ MidiInitOver(SysexConfigs)
  /\ ChartIdle
  /\ parser = "mid"
  /\ tape = <<>>
  /\ pos = 0
  /\ pass = 0
  /\ firstNotes = EmptyNoteData
  /\ LoadIdle

\* The event handled last is kept on the tape.
Kept(kind, tick, note, pData) ==
  /\ tape' = <<[kind |-> kind, tick |-> tick, note |-> note, pData |-> pData]>>
  /\ UNCHANGED <<parser, pos, pass, firstNotes>>
  /\ UNCHANGED <<chartVars, loadVars>>

FeedSysex(tick, pData) == OnSysex(tick, pData) /\ Kept("sysex", tick, 0, pData)

FeedNoteOn(tick) ==
  OnNoteOn(tick, SysexTrackPitch) /\ Kept("on", tick, SysexTrackPitch, <<>>)

FeedNoteOff(tick) ==
  OnNoteOff(tick, SysexTrackPitch) /\ Kept("off", tick, SysexTrackPitch, <<>>)

SysexNext ==
  \/ \E t \in MidiTicks, p \in AllSysexPayloads : FeedSysex(t, p)
  \/ \E t \in NoteOnTicks : FeedNoteOn(t)
  \/ \E t \in MidiTicks : FeedNoteOff(t)

SpecSysex == SysexStart /\ [][SysexNext]_vars


(***************************************************************************)
(* The loaders' entry points: NotesLoaderChart.cpp and NotesLoaderMID.cpp. *)
(***************************************************************************)
LoaderFns == {"CHARTLoader::LoadFromDir", "CHARTLoader::LoadNoteDataFromSimfile",
              "MIDILoader::LoadFromDir", "MIDILoader::LoadNoteDataFromSimfile"}
ChartLoaderFns == {"CHARTLoader::LoadFromDir", "CHARTLoader::LoadNoteDataFromSimfile"}
MidiLoaderFns == LoaderFns \ ChartLoaderFns
\* The source file: it opens and reads, it cannot be opened, or it opens and
\* reading it fails.
FileStates == {"ok", "missing", "unreadable"}
\* The m_StepsType of the Steps handed to LoadNoteDataFromSimfile.
LoaderStepsTypes == {"StepsType_guitar_solo", "StepsType_guitar_backup",
                     "StepsType_guitar_solo6", "StepsType_guitar_backup6"}

\* A loader has just been called.
LoaderStart ==
  /\ \E fn \in LoaderFns, file \in FileStates, st \in LoaderStepsTypes :
        ld = [fn |-> fn, file |-> file, stepsType |-> st, pc |-> "call",
              mf |-> "none", ret |-> "none"]
  /\ ChartIdle
  /\ MidiIdle
  /\ RunIdle
  /\ OrgIdle
  /\ BufIdle

Returns(v) == ld' = [ld EXCEPT !.pc = "done", !.ret = v]
Goto(pc) == ld' = [ld EXCEPT !.pc = pc]
LoaderFrame == UNCHANGED <<chartVars, midiVars, runVars, orgVars, bufVars>>

\* CHARTLoader::LoadFromDir: hands the first .chart file to ReadFile.
ChartLoadFromDir ==
  /\ ld.pc = "call" /\ ld.fn = "CHARTLoader::LoadFromDir"
  /\ Goto("open")
  /\ LoaderFrame

\* CHARTLoader::LoadNoteDataFromSimfile: false for steps that are not
\* guitar-solo, else ReadFile.
ChartLoadNoteData ==
  /\ ld.pc = "call" /\ ld.fn = "CHARTLoader::LoadNoteDataFromSimfile"
  /\ IF ld.stepsType # "StepsType_guitar_solo" THEN Returns("false") ELSE Goto("open")
  /\ LoaderFrame

\* ReadFile: f.Open.
ReadFile_Open ==
  /\ ld.pc = "open"
  /\ IF ld.file = "missing" THEN Returns("false") ELSE Goto("read")
  /\ LoaderFrame

\* ReadFile: f.Read.
ReadFile_Read ==
  /\ ld.pc = "read"
  /\ IF ld.file = "unreadable" THEN Returns("false") ELSE Goto("parse")
  /\ LoaderFrame

\* ReadFile: ReadBuf, then return true.
ReadFile_ReadBuf ==
  /\ ld.pc = "parse"
  /\ Returns("true")
  /\ LoaderFrame

\* ReadMidiFile: a file object for a file that reads; for one that does not,
\* a null pointer or an object without tracks.
ReadMidiFile ==
  /\ ld.pc = "call" /\ ld.fn \in MidiLoaderFns
  /\ \E mf \in IF ld.file = "ok" THEN {"file"} ELSE {"NULL", "empty"} :
        ld' = [ld EXCEPT !.pc = "organize", !.mf = mf]
  /\ LoaderFrame

\* organizeMidi reads mf->numTracks: through a null pointer the read faults
\* or yields some value.
organizeMidi ==
  /\ ld.pc = "organize"
  /\ \/ ld.mf = "NULL" /\ Returns("fault")
     \/ Goto("meta")
  /\ LoaderFrame

\* mf->ticksPerBeat and parseINI.
LoadMeta ==
  /\ ld.pc = "meta"
  /\ \/ ld.mf = "NULL" /\ Returns("fault")
     \/ Goto("tracks")
  /\ LoaderFrame

\* The tracks are parsed and the loader returns true.
LoadTracks ==
  /\ ld.pc = "tracks"
  /\ Returns("true")
  /\ LoaderFrame

LoaderNext ==
  \/ ChartLoadFromDir
  \/ ChartLoadNoteData
  \/ ReadFile_Open
  \/ ReadFile_Read
  \/ ReadFile_ReadBuf
  \/ ReadMidiFile
  \/ organizeMidi
  \/ LoadMeta
  \/ LoadTracks

SpecLoader == LoaderStart /\ [][LoaderNext]_vars

(***************************************************************************)
(* organizeMidi: which track of the file plays which part.                 *)
(***************************************************************************)
\* The most tracks a file has.
MaxTracks == 3

\* A track is described by the type of its first event, by the first event
\* of sub-type TrackName, Tempo or TimeSignature that the skip loop stops at
\* (lead; "NULL" when the track has no such event), by the text of a
\* TrackName event and by the sub-type of the event that follows the name
\* ("NULL" when the name is the last event of the list).
OrgNames == {"PART GUITAR", "PART GUITAR GHL", "PART BASS GHL", "PART DRUMS", "BEAT",
             "EVENTS", "PART GUITAR COOP", "Song Title"}
OrgFollowers == {"Tempo", "EndOfTrack"}
OrgTracks ==
  {[type |-> "NoteOn", lead |-> "none", name |-> "", next |-> "none"],
   [type |-> "Meta", lead |-> "Tempo", name |-> "", next |-> "none"],
   [type |-> "Meta", lead |-> "NULL", name |-> "", next |-> "none"],
   [type |-> "Meta", lead |-> "TrackName", name |-> "Song Title", next |-> "NULL"]}
  \cup {[type |-> "Meta", lead |-> "TrackName", name |-> n, next |-> f] :
          n \in OrgNames, f \in OrgFollowers}
\* What a read of subType through a null event pointer may yield.
StraySubTypes == {"Tempo", "Other"}

\* The names organizeMidi knows.
GuitarNames == {"PART GUITAR", "PART_GUITAR", "T1 GEMS"}
BassNames == {"PART BASS", "PART_BASS", "PART RHYTHM", "PART_RHYTHM"}
DrumNames == {"PART DRUMS", "PART_DRUMS", "BAND DRUMS", "BAND_DRUMS"}
VocalNames == {"PART VOCALS", "PART_VOCALS", "BAND SINGER", "BAND_SINGER"}
TrackVocabulary ==
  GuitarNames \cup BassNames \cup DrumNames \cup VocalNames
  \cup {"PART GUITAR GHL", "PART BASS GHL", "EVENTS", "VENUE", "BEAT"}

\* compareToString: the C string and the string have the same characters and
\* the same length.
compareToString(cstr, str) == cstr = str

\* The rule set after a drum or vocal track is found.
FoundBandTrack(rules) == IF rules = "Unknown_Rules" THEN "RB_HOPO_Rules" ELSE rules

\* NameTrack for a loop that stays on the name event of a track it does not
\* know.
NameTrack_StaysOnName(m, idx, name) ==
  IF \E n \in GuitarNames : compareToString(name, n)
  THEN [mo |-> [m EXCEPT !.guitarTrack = idx], advanced |-> FALSE]
  ELSE IF compareToString(name, "PART GUITAR GHL")
  THEN [mo |-> [m EXCEPT !.guitarTrack = idx, !.FretType = "SIX_FRETS"], advanced |-> FALSE]
  ELSE IF \E n \in BassNames : compareToString(name, n)
  THEN [mo |-> [m EXCEPT !.bassTrack = idx], advanced |-> FALSE]
  ELSE IF compareToString(name, "PART BASS GHL")
  THEN [mo |-> [m EXCEPT !.bassTrack = idx, !.FretType = "SIX_FRETS"], advanced |-> FALSE]
  ELSE IF \E n \in DrumNames : compareToString(name, n)
  THEN [mo |-> [m EXCEPT !.drumTrack = idx, !.HOPOType = FoundBandTrack(m.HOPOType)],
        advanced |-> FALSE]
  ELSE IF \E n \in VocalNames : compareToString(name, n)
  THEN [mo |-> [m EXCEPT !.vocalTrack = idx, !.HOPOType = FoundBandTrack(m.HOPOType)],
        advanced |-> FALSE]
  ELSE IF compareToString(name, "EVENTS")
  THEN [mo |-> [m EXCEPT !.eventTrack = idx], advanced |-> FALSE]
  ELSE IF compareToString(name, "VENUE")
  THEN [mo |-> [m EXCEPT !.venueTrack = idx], advanced |-> FALSE]
  ELSE IF compareToString(name, "BEAT")
  THEN [mo |-> [m EXCEPT !.beatTrack = idx], advanced |-> FALSE]
  ELSE [mo |-> [m EXCEPT !.otherTrack = idx], advanced |-> FALSE]

\* The chain of comparisons on a track name: the organizer afterwards, and
\* whether tempTrk moved on to the event after the name.
NameTrack(m, idx, name) ==
  IF \E n \in GuitarNames : compareToString(name, n)
  THEN [mo |-> [m EXCEPT !.guitarTrack = idx], advanced |-> FALSE]
  ELSE IF compareToString(name, "PART GUITAR GHL")
  THEN [mo |-> [m EXCEPT !.guitarTrack = idx, !.FretType = "SIX_FRETS"], advanced |-> FALSE]
  ELSE IF \E n \in BassNames : compareToString(name, n)
  THEN [mo |-> [m EXCEPT !.bassTrack = idx], advanced |-> FALSE]
  ELSE IF compareToString(name, "PART BASS GHL")
  THEN [mo |-> [m EXCEPT !.bassTrack = idx, !.FretType = "SIX_FRETS"], advanced |-> FALSE]
  ELSE IF \E n \in DrumNames : compareToString(name, n)
  THEN [mo |-> [m EXCEPT !.drumTrack = idx, !.HOPOType = FoundBandTrack(m.HOPOType)],
        advanced |-> FALSE]
  ELSE IF \E n \in VocalNames : compareToString(name, n)
  THEN [mo |-> [m EXCEPT !.vocalTrack = idx, !.HOPOType = FoundBandTrack(m.HOPOType)],
        advanced |-> FALSE]
  ELSE IF compareToString(name, "EVENTS")
  THEN [mo |-> [m EXCEPT !.eventTrack = idx], advanced |-> FALSE]
  ELSE IF compareToString(name, "VENUE")
  THEN [mo |-> [m EXCEPT !.venueTrack = idx], advanced |-> FALSE]
  ELSE IF compareToString(name, "BEAT")
  THEN [mo |-> [m EXCEPT !.beatTrack = idx], advanced |-> FALSE]
  ELSE [mo |-> [m EXCEPT !.otherTrack = idx], advanced |-> TRUE]

\* One pass of the loop over the tracks, for track idx.
LookAtTrack(m, idx, track) ==
  IF track.type # "Meta" THEN m
  ELSE LET named == IF track.lead = "TrackName" THEN NameTrack(m, idx, track.name)
                    ELSE [mo |-> m, advanced |-> FALSE]
           subType == IF track.lead = "TrackName" /\ named.advanced THEN track.next
                      ELSE track.lead
       IN  IF subType \in {"Tempo", "TimeSignature"}
           THEN [named.mo EXCEPT !.beatTrack = idx]
           ELSE named.mo

\* Whether the pass over the track reads tempTrk->subType with tempTrk null:
\* the skip loop finds none of the three sub-types before the list ends, or
\* the name the loop does not know is the last event of the list.
ReadsNullEvent(m, idx, track) ==
  /\ track.type = "Meta"
  /\ \/ track.lead = "NULL"
     \/ track.lead = "TrackName" /\ NameTrack(m, idx, track.name).advanced
                                /\ track.next = "NULL"

\* One pass of the loop for such a track when the read through the null
\* pointer yields sub-type stray: tempTrk is null when the beat track is set.
LookAtEndedTrack(m, idx, track, stray) ==
  LET named == IF track.lead = "TrackName" THEN NameTrack(m, idx, track.name).mo ELSE m
  IN  IF stray \in {"Tempo", "TimeSignature"}
      THEN [named EXCEPT !.beatTrack = NULL]
      ELSE named

\* organizeMidi is handed a file of one to MaxTracks tracks.
OrganizeStart ==
  /\ \E n \in 1 .. MaxTracks : midFile \in [1 .. n -> OrgTracks]
  /\ mo = NewOrganizer
  /\ trackIdx = Len(midFile) - 1
  /\ organized = FALSE
  /\ ChartIdle
  /\ MidiIdle
  /\ RunIdle
  /\ ld = [fn |-> "MIDILoader::LoadFromDir", file |-> "ok",
           stepsType |-> "StepsType_guitar_solo", pc |-> "organize",
           mf |-> "file", ret |-> "none"]
  /\ BufIdle

OrganizeFrame == UNCHANGED <<chartVars, midiVars, runVars, ld, midFile, bufVars>>

\* A file of one track: the track is both the guitar and the beat track.
OrganizeSingleTrack ==
  /\ ld.pc = "organize"
  /\ ~organized
  /\ Len(midFile) = 1
  /\ mo' = [mo EXCEPT !.guitarTrack = 0, !.beatTrack = 0, !.HOPOType = "GH_HOPO_Rules"]
  /\ organized' = TRUE
  /\ UNCHANGED trackIdx
  /\ OrganizeFrame

\* One pass of the loop, from the last track to the first. Neither the skip
\* loop nor the step past a name the loop does not know tests pNext: at the
\* end of the list tempTrk is null and tempTrk->subType is read through it.
\* The read faults, or it yields some sub-type and the loop goes on.
OrganizeTrack ==
  /\ ld.pc = "organize"
  /\ ~organized
  /\ Len(midFile) # 1
  /\ trackIdx >= 0
  /\ LET track == midFile[trackIdx + 1]
     IN  IF ReadsNullEvent(mo, trackIdx, track)
         THEN \/ /\ ld' = [ld EXCEPT !.pc = "done", !.ret = "fault"]
                 /\ UNCHANGED <<mo, trackIdx>>
              \/ /\ \E stray \in StraySubTypes :
                       mo' = LookAtEndedTrack(mo, trackIdx, track, stray)
                 /\ trackIdx' = trackIdx - 1
                 /\ UNCHANGED ld
         ELSE /\ mo' = LookAtTrack(mo, trackIdx, track)
              /\ trackIdx' = trackIdx - 1
              /\ UNCHANGED ld
  /\ UNCHANGED organized
  /\ UNCHANGED <<chartVars, midiVars, runVars, midFile, bufVars>>

\* After the loop: the first-game rules unless a drum or vocal track was found.
OrganizeDefault ==
  /\ ld.pc = "organize"
  /\ ~organized
  /\ Len(midFile) # 1
  /\ trackIdx < 0
  /\ mo' = [mo EXCEPT !.HOPOType = IF mo.HOPOType = "Unknown_Rules"
                                    THEN "GH_HOPO_Rules" ELSE mo.HOPOType]
  /\ organized' = TRUE
  /\ UNCHANGED trackIdx
  /\ OrganizeFrame

OrganizeNext ==
  \/ OrganizeSingleTrack
  \/ OrganizeTrack
  \/ OrganizeDefault

SpecOrganize == OrganizeStart /\ [][OrganizeNext]_vars

(***************************************************************************)
(* ReadBuf and parseHeader: the resolution and the HOPO threshold that a   *)
(* note section is parsed with.                                            *)
(***************************************************************************)
\* Lines a [Song] section may hold.
MaxHeaderLines == 3
\* Values a Resolution line may carry.
HeaderResolutions == {40, 100, 192, 480}
\* The song.ini next to the chart: none, or one whose [song] section holds
\* at most one hopofreq key and at most one eighthnote_hopo key.
SongInis ==
  {[exists |-> FALSE, hopofreq |-> {}, eighthnote_hopo |-> {}]} \cup
  [exists : {TRUE}, hopofreq : {{}} \cup {{f} : f \in 0 .. 5},
   eighthnote_hopo : {{}, {FALSE}, {TRUE}}]

\* IniFile::GetValue: whether the key is there.
GetValue(values) == values # {}
IniValue(values) == CHOOSE v \in values : TRUE

\* The switch over hopofreq: `3 / 8` and `3 / 16` are divisions of ints.
HopoSwitch(res, hopoRes) ==
  CASE hopoRes = 0 -> res \div 2
    [] hopoRes = 1 -> res * (3 \div 8)
    [] hopoRes = 3 -> res * (3 \div 16)
    [] hopoRes = 4 -> res \div 8
    [] OTHER -> res \div 4

\* The threshold after a Resolution line that carries res, hopo being the
\* threshold before it.
HeaderThreshold(res, hopo, ini) ==
  IF ~ini.exists THEN res \div 4
  ELSE LET byFreq == IF GetValue(ini.hopofreq)
                       THEN HopoSwitch(res, IniValue(ini.hopofreq))
                       ELSE hopo
       IN IF GetValue(ini.eighthnote_hopo) /\ IniValue(ini.eighthnote_hopo)
            THEN byFreq \div 2
            ELSE byFreq

\* ReadBuf has set up its locals and reads the first line of the file.
HeaderStart ==
  /\ rb = NewReadBuf("ReadBuf")
  /\ songIni \in SongInis
  /\ ChartIdle
  /\ MidiIdle
  /\ RunIdle
  /\ OrgIdle
  /\ NoLoaderCall

HeaderFrame == UNCHANGED <<midiVars, runVars, ld, orgVars, songIni>>

\* ReadBuf reads a [Song] tag and calls parseHeader.
ReadSongTag ==
  /\ rb.pc = "ReadBuf"
  /\ rb.nLines < MaxHeaderLines
  /\ rb' = [rb EXCEPT !.pc = "parseHeader"]
  /\ UNCHANGED chartVars
  /\ HeaderFrame

\* parseHeader reads `Resolution = res`.
ReadResolutionLine(res) ==
  /\ rb.pc = "parseHeader"
  /\ rb.nLines < MaxHeaderLines
  /\ rb' = [rb EXCEPT !.resolution = res,
                      !.iHopoResolution = HeaderThreshold(res, @, songIni),
                      !.nLines = @ + 1,
                      !.nResolution = @ + 1]
  /\ UNCHANGED chartVars
  /\ HeaderFrame

\* parseHeader reads a line with another key (Name, Artist, Offset, ...).
ReadOtherHeaderLine ==
  /\ rb.pc = "parseHeader"
  /\ rb.nLines < MaxHeaderLines
  /\ rb' = [rb EXCEPT !.nLines = @ + 1]
  /\ UNCHANGED chartVars
  /\ HeaderFrame

\* parseHeader reads the closing brace and returns to ReadBuf.
EndHeader ==
  /\ rb.pc = "parseHeader"
  /\ rb' = [rb EXCEPT !.pc = "ReadBuf"]
  /\ UNCHANGED chartVars
  /\ HeaderFrame

\* ReadBuf reads a [...Single] tag and hands its resolution and threshold to
\* parseNoteSection.
ReadSingleTag ==
  /\ rb.pc = "ReadBuf"
  /\ rb' = [rb EXCEPT !.pc = "parseNoteSection"]
  /\ resolution' = rb.resolution
  /\ iHopoResolution' = rb.iHopoResolution
  /\ UNCHANGED <<newNotes, iPrevNoteMark, iPrevNoteTrack, iPrevNoteLength,
                 bPrevNoteHOPO, iLastForcedRow, iLastTapRow, iLastChordRow,
                 vsWords, nRead, keepReading, loc, forcedMarks>>
  /\ HeaderFrame

HeaderNext ==
  \/ ReadSongTag
  \/ \E res \in HeaderResolutions : ReadResolutionLine(res)
  \/ ReadOtherHeaderLine
  \/ EndHeader
  \/ ReadSingleTag

SpecHeader == HeaderStart /\ [][HeaderNext]_vars


(***************************************************************************)
(* ReadBuf over the difficulty sections of a file: one difficulty loaded   *)
(* from a file that holds only its section, then again from a file that    *)
(* holds other sections too, alone or with the whole song.                 *)
(***************************************************************************)
\* Sections of other difficulties in a file, and lines in each of them.
MaxOtherSections == 2
MaxOtherLines == 2
\* The tags of the sections and the difficulty of the steps to load.
SectionTags == {"[ExpertSingle]", "[HardSingle]", "[EasySingle]"}
TargetDifficulty == "Difficulty_Challenge"
\* Lines of the other sections.
OtherLines ==
  {[kind |-> "N", tick |-> 0, track |-> 0, len |-> 0],
   [kind |-> "N", tick |-> 48, track |-> 1, len |-> 0],
   [kind |-> "E*", tick |-> 48, track |-> -1, len |-> 0]}

\* parseDifficulty: the first of Expert, Hard, Medium, Easy the tag contains.
parseDifficulty(tag) ==
  CASE tag = "[ExpertSingle]" -> "Difficulty_Challenge"
    [] tag = "[HardSingle]" -> "Difficulty_Hard"
    [] tag = "[MediumSingle]" -> "Difficulty_Medium"
    [] tag = "[EasySingle]" -> "Difficulty_Easy"
    [] OTHER -> "Difficulty_Invalid"

\* A parseNoteSection whose last-note state outlives the call.
NoteSectionCall_KeepsLastNote(res, hopo) ==
  /\ resolution' = res
  /\ iHopoResolution' = hopo
  /\ newNotes' = EmptyNoteData
  /\ iLastForcedRow' = -1
  /\ iLastTapRow' = -1
  /\ iLastChordRow' = -1
  /\ vsWords' = NoWords
  /\ nRead' = 0
  /\ keepReading' = TRUE
  /\ loc' = NoLocals
  /\ forcedMarks' = <<>>
  /\ UNCHANGED <<iPrevNoteMark, iPrevNoteTrack, iPrevNoteLength, bPrevNoteHOPO>>

\* parseNoteSection is called: its parameters are copies of ReadBuf's locals
\* and every local of it is created anew.
NoteSectionCall(res, hopo) ==
  /\ resolution' = res
  /\ iHopoResolution' = hopo
  /\ newNotes' = EmptyNoteData
  /\ iPrevNoteMark' = [i \in ChartTracks |-> -1]
  /\ iPrevNoteTrack' = -1
  /\ iPrevNoteLength' = [i \in ChartTracks |-> -1]
  /\ bPrevNoteHOPO' = [i \in ChartTracks |-> FALSE]
  /\ iLastForcedRow' = -1
  /\ iLastTapRow' = -1
  /\ iLastChordRow' = -1
  /\ vsWords' = NoWords
  /\ nRead' = 0
  /\ keepReading' = TRUE
  /\ loc' = NoLocals
  /\ forcedMarks' = <<>>

\* One line of a section handed to its record's handling.
ReadLine(line) ==
  CASE line.kind = "E*" -> ReadForcedEvent(line.tick)
    [] line.kind = "ET" -> ReadTapEvent(line.tick)
    [] line.kind = "N" -> ReadNote(line.tick, line.track, line.len)

\* The closing brace: parseNoteSection returns its timeline.
CloseSection ==
  /\ keepReading
  /\ keepReading' = FALSE
  /\ UNCHANGED <<resolution, iHopoResolution, newNotes, iPrevNoteMark, iPrevNoteTrack,
                 iPrevNoteLength, bPrevNoteHOPO, iLastForcedRow, iLastTapRow,
                 iLastChordRow, vsWords, nRead, loc, forcedMarks>>

SectionsFrame == UNCHANGED <<midiVars, runVars, ld, orgVars, songIni>>

\* ReadBuf, after the header, is to load the Expert steps alone from a file
\* that holds only the Expert section, whose lines are the tape.
SectionsStart ==
  /\ parser = "chart"
  /\ tape \in TapesOver(ChartLines)
  /\ pos = 0
  /\ pass = 1
  /\ firstNotes = EmptyNoteData
  /\ \E p \in ChartParams :
        rb = [NewReadBuf("ReadBuf") EXCEPT !.resolution = p[1],
                                          !.iHopoResolution = p[2],
                                          !.parseSongInfo = FALSE]
  /\ songIni = [exists |-> FALSE, hopofreq |-> {}, eighthnote_hopo |-> {}]
  /\ ChartIdle
  /\ MidiIdle
  /\ OrgIdle
  /\ NoLoaderCall

\* ReadBuf reads the tag of a [...Single] section. Loading one difficulty, it
\* passes over a section of another; else it calls parseNoteSection. A file
\* holds one Expert section, and the first file holds nothing else.
OpenSection(tag) ==
  /\ rb.pc = "ReadBuf"
  /\ LET currDiff == parseDifficulty(tag)
     IN  /\ currDiff = TargetDifficulty => ~rb.loaded
         /\ currDiff # TargetDifficulty => (pass = 2 /\ rb.nSections < MaxOtherSections)
         /\ IF ~rb.parseSongInfo /\ currDiff # TargetDifficulty
            THEN /\ rb' = [rb EXCEPT !.nSections = @ + 1]
                 /\ UNCHANGED chartVars
            ELSE /\ rb' = [rb EXCEPT
                             !.pc = IF currDiff = TargetDifficulty THEN "target" ELSE "other",
                             !.nSections = IF currDiff = TargetDifficulty THEN @ ELSE @ + 1]
                 /\ NoteSectionCall(rb.resolution, rb.iHopoResolution)
  /\ SectionsFrame

\* ReadBuf reads a line that is no tag (a line of a section it passes over,
\* or of the SyncTrack section): nothing is done with it.
ReadPlainLine ==
  /\ rb.pc = "ReadBuf"
  /\ pass = 2
  /\ rb.nLines < MaxOtherLines
  /\ rb' = [rb EXCEPT !.nLines = @ + 1]
  /\ UNCHANGED chartVars
  /\ SectionsFrame

\* parseNoteSection reads the next line of the Expert section.
ReadTargetLine ==
  /\ rb.pc = "target"
  /\ nRead < Len(tape)
  /\ ReadLine(tape[nRead + 1])

\* parseNoteSection returns the Expert timeline: it is set on the steps, and
\* ReadBuf stops when it loads these steps alone.
EndTargetSection ==
  /\ rb.pc = "target"
  /\ nRead = Len(tape)
  /\ CloseSection
  /\ rb' = [rb EXCEPT !.steps = newNotes, !.loaded = TRUE,
                      !.pc = IF rb.parseSongInfo THEN "ReadBuf" ELSE "done"]
  /\ SectionsFrame

\* parseNoteSection reads a line of a section of another difficulty.
ReadOtherLine ==
  /\ rb.pc = "other"
  /\ nRead < MaxOtherLines
  /\ \E line \in OtherLines : ReadLine(line)

\* parseNoteSection returns the timeline of another difficulty, which is set
\* on steps of its own.
EndOtherSection ==
  /\ rb.pc = "other"
  /\ CloseSection
  /\ rb' = [rb EXCEPT !.pc = "ReadBuf"]
  /\ SectionsFrame

\* The end of a file that held the Expert section.
EndOfFile ==
  /\ rb.pc = "ReadBuf"
  /\ rb.loaded
  /\ rb' = [rb EXCEPT !.pc = "done"]
  /\ UNCHANGED chartVars
  /\ SectionsFrame

\* ReadBuf is called for a second file with the same header and the same
\* Expert section, for the Expert steps alone or for the whole song.
LoadAgain(wholeSong) ==
  /\ pass = 1
  /\ rb.pc = "done"
  /\ firstNotes' = rb.steps
  /\ pass' = 2
  /\ rb' = [rb EXCEPT !.pc = "ReadBuf", !.parseSongInfo = wholeSong, !.nLines = 0,
                      !.nSections = 0, !.loaded = FALSE, !.steps = EmptyNoteData]
  /\ UNCHANGED chartVars
  /\ UNCHANGED <<midiVars, parser, tape, pos, ld, orgVars, songIni>>

SectionsNext ==
  \/ \E tag \in SectionTags : OpenSection(tag)
  \/ ReadPlainLine
  \/ ReadTargetLine
  \/ EndTargetSection
  \/ ReadOtherLine
  \/ EndOtherSection
  \/ EndOfFile
  \/ \E wholeSong \in BOOLEAN : LoadAgain(wholeSong)

SpecSections == SectionsStart /\ [][SectionsNext]_vars

(***************************************************************************)
(* Claims about the text engine.                                           *)
(***************************************************************************)
\* The step reads one more record, of the given kinds.
ReadsRecord(kinds) == nRead' = nRead + 1 /\ vsWords'.kind \in kinds

\* The note a note record has just emitted.
LastNote == GetTapNote(newNotes, vsWords.track, Row(vsWords.tick))

\* C1: a forced marker (E * or N 5) read at tick t turns every HOPO already at
\* tick t on tracks 0-4 into a strum and every strum into a HOPO, each keeping
\* its duration.
C1_ForcedMarkerToggles ==
  [][ReadsRecord({"E*", "N5"}) =>
       \A l \in ChartTracks :
         LET old == GetTapNote(newNotes, l, Row(vsWords'.tick))
             new == GetTapNote(newNotes', l, Row(vsWords'.tick))
         IN  /\ IsHOPO(old) => (IsGem(new) /\ new.iDuration = old.iDuration)
             /\ IsGem(old) => (IsHOPO(new) /\ new.iDuration = old.iDuration)]_vars

\* The input "0 = N 0 0", "96 = N 1 0" at resolution 192 and threshold 48, no
\* marker read: two records, the first a note on track 0 at tick 0.
TwoNoteScenario ==
  /\ resolution = 192 /\ iHopoResolution = 48
  /\ nRead = 2
  /\ vsWords = [kind |-> "N", tick |-> 96, track |-> 1, len |-> 0]
  /\ iPrevNoteMark = [i \in ChartTracks |-> IF i = 0 THEN 0 ELSE IF i = 1 THEN 96 ELSE -1]
  /\ iPrevNoteLength[0] = 0
  /\ iLastForcedRow = -1 /\ iLastTapRow = -1

\* C2 as stated: after "0 = N 0 0" and "96 = N 1 0" (resolution 192, threshold
\* 48, no markers) the event at tick 96 on track 1 is HOPO.
C2_Tick96IsHOPO == TwoNoteScenario => IsHOPO(GetTapNote(newNotes, 1, Row(96)))

\* C2 as amended: in that input the event at tick 96 on track 1 is a plain
\* strum, since 96 ticks are more than the threshold of 48 allows.
C2_Tick96IsStrum ==
  TwoNoteScenario => GetTapNote(newNotes, 1, Row(96)) = TAP_ORIGINAL_GEM

\* C3: a note that reads as Tap (every Tap comes from a tap marker) reads as
\* Tap or held Tap after every later record, unless a new note record lands on
\* its own place.
C3_TapStaysTap ==
  [][\A p \in DOMAIN newNotes :
       (/\ IsTap(newNotes[p])
        /\ ~(vsWords'.kind = "N" /\ nRead' = nRead + 1
             /\ p = <<vsWords'.track, Row(vsWords'.tick)>>))
       => (p \in DOMAIN newNotes' /\ IsTap(newNotes'[p]))]_vars

\* Whether some forced marker read so far lies within 1 tick of the tick.
NearForcedMark(tick) ==
  \E i \in 1 .. Len(forcedMarks) : Abs(forcedMarks[i] - tick) <= 1

\* C4: a non-tap note record is emitted with the opposite of the decision it
\* gets without the marker exactly when a forced marker lies within 1 tick of
\* it, and with that decision otherwise: once, however many markers share the
\* tick, and never because of a marker further away.
C4_ForcedInvertsOnce ==
  [][(ReadsRecord({"N"}) /\ ~loc'.tap) =>
       LET n == GetTapNote(newNotes', vsWords'.track, Row(vsWords'.tick))
           want == IF NearForcedMark(vsWords'.tick) THEN ~loc'.base ELSE loc'.base
       IN  /\ IsHOPO(n) = want
           /\ IsGem(n) = ~want
           /\ bPrevNoteHOPO'[vsWords'.track] = want]_vars

\* C4's case: markers at two ticks more than 1 apart, two of them on the same
\* tick, and a note on that tick emitted inverted.
C4_Witness ==
  /\ vsWords.kind = "N" /\ ~loc.tap
  /\ loc.hopo # loc.base
  /\ \E i, j \in 1 .. Len(forcedMarks) :
        i # j /\ forcedMarks[i] = forcedMarks[j] /\ Abs(forcedMarks[i] - vsWords.tick) <= 1
  /\ \E i \in 1 .. Len(forcedMarks) : Abs(forcedMarks[i] - vsWords.tick) > 1

\* C5: when the last note of track A is a HOPO at tick t and a note record of
\* another track B arrives within 1 tick of t, then afterwards A's note reads
\* as strum (held strum if it had a duration), A's HOPO flag is cleared and
\* the last chord tick is B's tick.
C5_ChordBreaksHOPO ==
  [][ReadsRecord({"N"}) =>
       \A a \in ChartTracks :
         LET old == GetTapNote(newNotes, a, Row(iPrevNoteMark[a]))
             new == GetTapNote(newNotes', a, Row(iPrevNoteMark[a]))
         IN  (/\ a # vsWords'.track
              /\ iPrevNoteMark[a] # -1
              /\ bPrevNoteHOPO[a] \/ IsHOPO(old)
              /\ Abs(vsWords'.tick - iPrevNoteMark[a]) <= 1)
             => /\ new.type = (IF old.iDuration > 0 THEN "GemHold" ELSE "Gem")
                /\ new.iDuration = old.iDuration
                /\ ~bPrevNoteHOPO'[a]
                /\ iLastChordRow' = vsWords'.tick]_vars

\* C5's case: the last record demoted a HOPO of another track, one tick away.
C5_Witness ==
  /\ vsWords.kind = "N"
  /\ \E a \in loc.demoted :
        /\ Abs(iPrevNoteMark[a] - vsWords.tick) = 1
        /\ IsGem(GetTapNote(newNotes, a, Row(iPrevNoteMark[a])))

HeldDuration(a, b) == IF b > a THEN b - a ELSE 0

MarkerThenTwoNotesScenario ==
  /\ resolution = 192 /\ iHopoResolution = 48
  /\ nRead = 3
  /\ vsWords = [kind |-> "N", tick |-> 96, track |-> 1, len |-> 0]
  /\ iPrevNoteMark = [i \in ChartTracks |-> IF i = 0 THEN 0 ELSE IF i = 1 THEN 96 ELSE -1]
  /\ iPrevNoteLength[0] = 0
  /\ forcedMarks = <<0>> /\ iLastTapRow = -1
  /\ bPrevNoteHOPO[0]

\* C10 as stated: with the marker at tick 0 read first, the marker inverts the
\* tick-96 decision, so the note at tick 96 on track 1 is a strum, the opposite
\* of its classification without the marker.
C10_MarkerInvertsTick96 ==
  MarkerThenTwoNotesScenario =>
    /\ IsGem(GetTapNote(newNotes, 1, Row(96)))
    /\ loc.hopo = ~loc.base

\* C10 as amended: the note at tick 96 on track 1 is a strum, which is the
\* classification it has without the marker as well: the marker at tick 0 is
\* more than 1 tick away and does not invert the tick-96 decision.
C10_Tick96StrumEitherWay ==
  MarkerThenTwoNotesScenario =>
    /\ GetTapNote(newNotes, 1, Row(96)) = TAP_ORIGINAL_GEM
    /\ loc.hopo = loc.base
    /\ ~loc.base


(***************************************************************************)
(* MIDI engine claims.                                                     *)
(***************************************************************************)
\* The lane of key idx before any open-section remap: six-fret tracks put the
\* open strum on key 0.
MidiLane(idx) == IF gd.iCols = 7 /\ idx < 7 THEN idx - 1 ELSE idx

\* Whether a processed note is a forced-HOPO marker / a normal-lane note.
IsMarkerCall(c) == IsForcedHOPOLane(MidiLane(c.idx), gd)
IsNormalCall(c) ==
  ~IsForcedHOPOLane(MidiLane(c.idx), gd) /\ ~IsForcedStrumLane(MidiLane(c.idx), gd)

\* The normal lanes with a processed note that starts at tick t.
LanesAt(t) == {MidiLane(c.idx) : c \in {d \in processed : IsNormalCall(d) /\ d.start = t}}

\* The lanes that hold a note at the row of tick t.
OccupiedAt(t) ==
  {i \in 0 .. (gd.iCols - 1) :
     GetTapNote(midNotes, i, BeatToNoteRow(t, gd.iResolution)) # TAP_EMPTY}

\* C7: once a forced-HOPO marker and two or more normal-lane notes that start
\* at its tick have been processed, whatever the order of their note-offs and
\* whatever the tap-section flag, the row holds exactly one note, on the
\* highest of those lanes, and every lower lane is empty there.
C7_OnlyHighestSurvives ==
  \A t \in NoteOnTicks :
    ( /\ \E c \in processed : IsMarkerCall(c) /\ c.start = t
      /\ Cardinality(LanesAt(t)) >= 2 )
    => \E h \in LanesAt(t) :
         /\ \A l \in LanesAt(t) : l <= h
         /\ OccupiedAt(t) = {h}

\* The key of lane l.
KeyOfLane(l) == IF gd.iCols = 7 THEN l + 1 ELSE l

\* Notes on lanes 0 and 1 that start at tick t have both been processed outside
\* tap and open sections, and no forced marker starts at t.
ChordPairDone(t) ==
  /\ \A l \in {0, 1} :
       [idx |-> KeyOfLane(l), start |-> t, tap |-> FALSE, open |-> FALSE] \in processed
  /\ \A c \in processed : c.start = t => IsNormalCall(c)

\* C8: outside tap and open sections and with no forced marker at the tick,
\* once two notes on lanes 0 and 1 that start at the same tick have both been
\* processed, both read as strum and the last chord tick is that tick,
\* whatever notes preceded them.
C8_ChordPairIsStrum ==
  [][\A t \in NoteOnTicks :
       (~ChordPairDone(t) /\ ChordPairDone(t)')
       => /\ IsGem(GetTapNote(midNotes', 0, BeatToNoteRow(t, gd.iResolution)))
          /\ IsGem(GetTapNote(midNotes', 1, BeatToNoteRow(t, gd.iResolution)))
          /\ gd'.iLastChordRow = t]_vars

\* C9: a System-Exclusive event reported as tap start (1) sets the tap-section
\* flag and one reported as tap stop (2) clears it, both leaving the
\* open-section flag alone; open start (3) and open stop (4) set and clear the
\* open-section flag and leave the tap-section flag alone.
C9_SysexSetsItsFlag ==
  [][\A t \in MidiTicks, p \in SysexPayloads :
       HandleSysex(t, p)
       => LET type == translateSysex(p, diff, charSigned)
          IN  /\ type = 1 => gd'.bInTapSection /\ gd'.bInOpenSection = gd.bInOpenSection
              /\ type = 2 => ~gd'.bInTapSection /\ gd'.bInOpenSection = gd.bInOpenSection
              /\ type = 3 => gd'.bInOpenSection /\ gd'.bInTapSection = gd.bInTapSection
              /\ type = 4 => ~gd'.bInOpenSection /\ gd'.bInTapSection = gd.bInTapSection]_vars


(***************************************************************************)
(* Held notes.                                                             *)
(***************************************************************************)
\* Whether the event is the head of a held note.
IsHeld(tn) == tn.type \in {"HoldHead", "GemHold", "HOPOHold"}

C12_HeldIffLongerThanHalfBeat ==
  [][\A c \in processed' \ processed :
        LET start == c.start
            end == curTick'
            res == gd.iResolution
            r == addGHRBNote(midNotes, c.idx, start, end, gd)
            tn == GetTapNote(midNotes', r.col, BeatToNoteRow(start, res))
        IN  (IsNormalCall(c) /\ r.placed) =>
              IF end - start > res \div 2
              THEN /\ IsHeld(tn)
                   /\ end - (res \div 8) > start
                   /\ tn.iDuration = BeatToNoteRow(end - (res \div 8), res)
                                       - BeatToNoteRow(start, res)
                   /\ tn.iDuration > 0
              ELSE /\ ~IsHeld(tn)
                   /\ tn # TAP_EMPTY
                   /\ tn.iDuration = 0]_vars

\* A held note and a note of exactly half a beat, which is not held, are on
\* the timeline.
C12_Witness ==
  /\ gd.iResolution = 8
  /\ \E c \in processed : IsNormalCall(c) /\ c.start = 0
  /\ \E c \in processed : IsNormalCall(c) /\ c.start = 4
  /\ \E i \in 0 .. 4 :
        /\ GetTapNote(midNotes, i, 0) # TAP_EMPTY
        /\ ~IsHeld(GetTapNote(midNotes, i, 0))
  /\ \E i \in 0 .. 4 :
        /\ IsHeld(GetTapNote(midNotes, i, 24))
        /\ GetTapNote(midNotes, i, 24).iDuration = 24

\* The second parse of the input has consumed all of it.
SecondParseDone ==
  /\ pass = 2
  /\ \/ parser = "chart" /\ ~keepReading
     \/ parser = "mid" /\ pos = Len(tape)

C14_ShortLineIsPassedOver ==
  [][ReadsRecord({"short", "fault"}) => (vsWords'.kind # "fault" /\ keepReading')]_vars

\* C15: a blank line that is followed by more lines of the section does not
\* end the section, and neither does a line with an opening brace.
C15_SectionEndsOnlyAtBrace ==
  [][(keepReading /\ vsWords'.kind \in {"blank", "{"} /\ vsWords' # vsWords) =>
        keepReading']_vars

\* C16: a note-off on a lane closes the note in progress on it, also when
\* its tick does not exceed the start of the note: once the track parse has
\* handled a note-off, the slot of its lane is empty.
C16_NoteOffEmptiesSlot ==
  (parser = "mid" /\ pos >= 1 /\ tape[pos].kind = "off"
     /\ tape[pos].note >= Low /\ tape[pos].note <= High)
  => notesInProgress[tape[pos].note - Low] = NULL

(***************************************************************************)
(* System-Exclusive payloads that are to be ignored.                       *)
(***************************************************************************)
HasValidHeader(p) == SubSeq(p, 1, 4) = <<80, 83, 0, 0>>

\* A tap payload, or an open payload for difficulty d.
IsRecognisedType(p, d) ==
  \/ p[5] = 255 /\ p[6] = 4
  \/ p[6] = 1 /\ p[5] = DifficultyByte(d)

\* An open payload for a difficulty other than d.
IsOtherDifficultyOpen(p, d) ==
  p[6] = 1 /\ p[5] \in {0, 1, 2, 3} /\ p[5] # DifficultyByte(d)

HasValidTrailer(p) == p[7] \in {0, 1} /\ p[8] = 247

\* The step handles a System-Exclusive event; its payload.
HandlesSysex == tape' # <<>> /\ tape'[1].kind = "sysex"
HandledPayload == tape'[1].pData

\* C17: a payload with the valid header and a recognised type whose bytes 6-7
\* are not (0x00 or 0x01, 0xF7) is ignored: translateSysex returns -1 and
\* neither section flag changes.
C17_BadTrailerIsIgnored ==
  [][(HandlesSysex /\ HasValidHeader(HandledPayload)
        /\ IsRecognisedType(HandledPayload, diff) /\ ~HasValidTrailer(HandledPayload))
     => /\ translateSysex(HandledPayload, diff, charSigned) = -1
        /\ gd'.bInTapSection = gd.bInTapSection
        /\ gd'.bInOpenSection = gd.bInOpenSection]_vars

\* C18: translateSysex returns -1 for every payload whose first four bytes are
\* not the header and for every open payload of another difficulty; such an
\* event changes neither section flag nor the timeline.
C18_ForeignPayloadIsIgnored ==
  [][(HandlesSysex /\ (\/ ~HasValidHeader(HandledPayload)
                        \/ IsOtherDifficultyOpen(HandledPayload, diff)))
     => /\ translateSysex(HandledPayload, diff, charSigned) = -1
        /\ gd' = gd
        /\ midNotes' = midNotes]_vars

\* The event handled last is an open payload of another difficulty with a
\* valid trailer, or one with a wrong header, and the track has a note on its
\* timeline.
C18_Witness ==
  /\ tape # <<>> /\ tape[1].kind = "sysex"
  /\ \/ /\ HasValidHeader(tape[1].pData)
        /\ IsOtherDifficultyOpen(tape[1].pData, diff)
        /\ HasValidTrailer(tape[1].pData)
     \/ /\ ~HasValidHeader(tape[1].pData)
        /\ IsRecognisedType(tape[1].pData, diff)
  /\ midNotes # EmptyNoteData
  /\ ~gd.bInTapSection /\ ~gd.bInOpenSection

\* C19: a loader whose source file could not be opened or read returns false:
\* it neither returns true nor reads through a missing file object.
C19_MissingFileReturnsFalse ==
  (ld.pc = "done" /\ ld.file # "ok") => ld.ret = "false"

(***************************************************************************)
(* Chords at the end of a parse.                                           *)
(***************************************************************************)
\* The section had no forced marker and no tap marker.
NoMarkersRead == forcedMarks = <<>> /\ iLastForcedRow = -1 /\ iLastTapRow = -1

\* The note of track tr at tick t has a note on another track within 1 tick.
HasChordPartner(tr, t) ==
  \E u \in FineTicks, other \in ChartTracks \ {tr} :
     Abs(u - t) <= 1 /\ GetTapNote(newNotes, other, Row(u)) # TAP_EMPTY

\* C20: at the end of the parse of a section without forced or tap markers,
\* no note that lies within 1 tick of a note on another track is a HOPO.
C20_ChordNotesAreNotHOPO ==
  (~keepReading /\ NoMarkersRead) =>
     \A tr \in ChartTracks, t \in FineTicks :
        HasChordPartner(tr, t) => ~IsHOPO(GetTapNote(newNotes, tr, Row(t)))

(***************************************************************************)
(* Rows of the MIDI timeline.                                              *)
(***************************************************************************)
\* The rows of the timeline that hold a note, and the lanes of a row.
MidiRows == {p[2] : p \in DOMAIN midNotes}
LanesOfRow(row) == {p[1] : p \in {q \in DOMAIN midNotes : q[2] = row}}

\* C21: after every processed event, no row of the timeline that holds notes
\* on two or more lanes contains a HOPO.
C21_ChordRowHasNoHOPO ==
  \A row \in MidiRows :
     Cardinality(LanesOfRow(row)) >= 2 =>
        \A l \in LanesOfRow(row) : ~IsHOPO(GetTapNote(midNotes, l, row))

\* C22: the start ticks of the notes handed one after another to addGHRBNote
\* do not decrease, and no lane's last-note tick decreases.
C22_StartsHandedInOrder ==
  [][/\ \A c \in processed' \ processed : \A d \in processed : c.start >= d.start
     /\ \A k \in DOMAIN gd.iPrevNoteMark : gd'.iPrevNoteMark[k] >= gd.iPrevNoteMark[k]]_vars

(***************************************************************************)
(* Notes classified by the lane scan.                                      *)
(***************************************************************************)
\* The step hands note c to addGHRBNote, which classifies it by the lane
\* scan: a normal lane outside a tap section, an empty row, and no forced
\* marker and no chord tick at its tick.
IsScanned(c) ==
  /\ c \in processed' \ processed
  /\ IsNormalCall(c)
  /\ ~gd.bInTapSection
  /\ OccupiedAt(c.start) = {}
  /\ gd.iLastForcedHOPO # c.start
  /\ gd.iLastForcedStrum # c.start
  /\ gd.iLastChordRow # c.start

\* The column note c is placed on, and the note placed.
ColumnOf(c) == NormalLane(MidiLane(c.idx), gd)
PlacedNote(c) == GetTapNote(midNotes', ColumnOf(c), BeatToNoteRow(c.start, gd.iResolution))

\* C23: a note classified by the lane scan is a HOPO only if another lane's
\* last note starts no later than it and at most the HOPO threshold before
\* it; a note that starts after it does not make it a HOPO.
C23_HOPONeedsEarlierNote ==
  [][\A c \in processed' :
       (IsScanned(c) /\ IsHOPO(PlacedNote(c)))
       => \E k \in (DOMAIN gd.iPrevNoteMark) \ {ColumnOf(c)} :
             /\ gd.iPrevNoteMark[k] # -1
             /\ gd.iPrevNoteMark[k] <= c.start
             /\ c.start - gd.iPrevNoteMark[k] <= gd.iHopoResolution]_vars

(***************************************************************************)
(* Marker keys.                                                            *)
(***************************************************************************)
\* The highest key of the difficulty's band.
HighestKey == NumKeys(gd.fretType) - 1

\* The step hands a note on key idx to addGHRBNote; the note handed.
HandsKey(idx) == \E c \in processed' \ processed : c.idx = idx
HandedStart(idx) == (CHOOSE c \in processed' \ processed : c.idx = idx).start

\* The lanes that hold a note at the row of tick t after the step.
OccupiedAfter(t) ==
  {i \in 0 .. (gd.iCols - 1) :
     GetTapNote(midNotes', i, BeatToNoteRow(t, gd.iResolution)) # TAP_EMPTY}

\* The step adds no note to the timeline.
PlacesNoNote == DOMAIN midNotes' \subseteq DOMAIN midNotes

\* C24 as stated: the highest key of the band is the forced-HOPO marker and
\* the key below it the forced-strum marker; neither places a note.
C24_HighestKeyForcesHOPO ==
  [][/\ HandsKey(HighestKey) =>
          (gd'.iLastForcedHOPO = HandedStart(HighestKey) /\ PlacesNoNote)
     /\ HandsKey(HighestKey - 1) =>
          (gd'.iLastForcedStrum = HandedStart(HighestKey - 1) /\ PlacesNoNote)]_vars

\* C24: the highest key of the band is the forced-strum marker and the key
\* below it the forced-HOPO marker (five-fret: keys 6 and 5, six-fret: keys 8
\* and 7). A marker records its tick and places no note: the forced-strum
\* marker leaves only strums on its row and the other marker's tick alone,
\* the forced-HOPO marker leaves at most one note there, a HOPO.
C24_HighestKeyForcesStrum ==
  [][/\ HandsKey(HighestKey) =>
          LET start == HandedStart(HighestKey)
          IN  /\ gd'.iLastForcedStrum = start
              /\ gd'.iLastForcedHOPO = gd.iLastForcedHOPO
              /\ PlacesNoNote
              /\ OccupiedAfter(start) = OccupiedAt(start)
              /\ \A l \in OccupiedAfter(start) :
                    IsGem(GetTapNote(midNotes', l, BeatToNoteRow(start, gd.iResolution)))
     /\ HandsKey(HighestKey - 1) =>
          LET start == HandedStart(HighestKey - 1)
          IN  /\ gd'.iLastForcedHOPO = start
              /\ gd'.iLastForcedStrum = gd.iLastForcedStrum
              /\ PlacesNoNote
              /\ Cardinality(OccupiedAfter(start)) <= 1
              /\ \A l \in OccupiedAfter(start) :
                    IsHOPO(GetTapNote(midNotes', l, BeatToNoteRow(start, gd.iResolution)))]_vars

\* A six-fret track has had both markers, and a note forced to HOPO.
C24_Witness ==
  /\ gd.fretType = "SIX_FRETS"
  /\ gd.iLastForcedHOPO # -1
  /\ gd.iLastForcedStrum # -1
  /\ \E c \in processed : c.idx = 7
  /\ \E c \in processed : c.idx = 8
  /\ \E p \in DOMAIN midNotes : IsHOPO(midNotes[p])

(***************************************************************************)
(* The lane of the note before.                                            *)
(***************************************************************************)
\* The step hands note c, on a normal lane outside a tap section and with no
\* forced-HOPO marker at its tick, to addGHRBNote.
IsTimedCall(c) ==
  /\ c \in processed' \ processed
  /\ IsNormalCall(c)
  /\ ~gd.bInTapSection
  /\ gd.iLastForcedHOPO # c.start

\* C25: a note classified HOPO by timing (no forced-HOPO marker at its tick)
\* has its immediately preceding note on a different lane; a note that repeats
\* the lane of the note handed just before it is placed as strum.
C25_RepeatedLaneIsStrum ==
  [][\A c \in processed' :
        (IsTimedCall(c) /\ gd.iPrevNoteTrack = ColumnOf(c)) =>
           ~IsHOPO(PlacedNote(c))]_vars

(***************************************************************************)
(* Text engine: the gap to the note before.                                *)
(***************************************************************************)
\* The note record being read follows a note of another track by at least 2
\* ticks, with no tap marker, forced marker or last chord tick within 1 tick
\* of it.
FollowsOtherTrack ==
  /\ ReadsRecord({"N"})
  /\ iPrevNoteTrack # -1
  /\ iPrevNoteTrack # vsWords'.track
  /\ vsWords'.tick - iPrevNoteMark[iPrevNoteTrack] >= 2
  /\ ~OnMarkedRow(iLastTapRow, vsWords'.tick)
  /\ ~NearForcedMark(vsWords'.tick)
  /\ ~OnMarkedRow(iLastChordRow, vsWords'.tick)

\* The track of the record being read has its last note within 1 tick of the
\* note read before: it took part in the chord of that note.
TookPartInChord ==
  /\ iPrevNoteTrack # -1
  /\ iPrevNoteMark[vsWords'.track] # -1
  /\ Abs(iPrevNoteMark[vsWords'.track] - iPrevNoteMark[iPrevNoteTrack]) <= 1

\* The note the record being read emits.
EmittedNote == GetTapNote(newNotes', vsWords'.track, Row(vsWords'.tick))

\* C26: a note that follows a note of another track by a gap g >= 2, with no
\* tap marker, forced marker or last chord tick within 1 tick of it, and whose
\* own track took no part in a chord with the note before, is a HOPO exactly
\* when g <= HOPOThreshold + 1 and a strum when g >= HOPOThreshold + 2.
C26_HOPOIffGapWithinThreshold ==
  [][(FollowsOtherTrack /\ ~TookPartInChord) =>
       LET g == vsWords'.tick - iPrevNoteMark[iPrevNoteTrack]
       IN  /\ IsHOPO(EmittedNote) = (g <= iHopoResolution + 1)
           /\ IsGem(EmittedNote) = (g >= iHopoResolution + 2)
           /\ bPrevNoteHOPO'[vsWords'.track] = (g <= iHopoResolution + 1)]_vars

\* C26's case: two notes on different tracks, HOPOThreshold + 1 ticks apart,
\* the second a HOPO.
C26_Witness ==
  /\ nRead = 2 /\ vsWords.kind = "N" /\ vsWords.track = 1
  /\ iPrevNoteMark = [i \in ChartTracks |-> IF i = 0 THEN 2 ELSE IF i = 1 THEN 15 ELSE -1]
  /\ 15 - 2 = iHopoResolution + 1
  /\ forcedMarks = <<>> /\ iLastTapRow = -1 /\ iLastChordRow = -1
  /\ IsHOPO(LastNote)

\* C27: a note on the track of the note read just before it, and the first
\* note of a section, are not emitted as HOPO unless a forced marker lies
\* within 1 tick of them.
C27_SameTrackAndFirstAreNotHOPO ==
  [][(/\ ReadsRecord({"N"})
      /\ iPrevNoteTrack \in {-1, vsWords'.track}
      /\ ~NearForcedMark(vsWords'.tick))
     => /\ ~IsHOPO(EmittedNote)
        /\ ~bPrevNoteHOPO'[vsWords'.track]]_vars

\* C27's case: two notes of track 0, at ticks 0 and 48 with a threshold of 48
\* and no forced marker, the second emitted as strum.
C27_Witness ==
  /\ nRead = 2 /\ vsWords.kind = "N" /\ vsWords.track = 0 /\ vsWords.tick = 48
  /\ iHopoResolution = 48
  /\ iPrevNoteMark = [i \in ChartTracks |-> IF i = 0 THEN 48 ELSE -1]
  /\ GetTapNote(newNotes, 0, Row(0)) # TAP_EMPTY
  /\ forcedMarks = <<>> /\ iLastTapRow = -1
  /\ IsGem(LastNote)

\* C28: when the note read just before is on another track and lies within 1
\* tick of the last note of the current note's own track, the current note is
\* emitted as strum however close it is, unless a forced marker within 1 tick
\* inverts it (it is then a HOPO) or a tap marker within 1 tick makes it a Tap.
C28_NoteAfterOwnChordIsStrum ==
  [][(/\ ReadsRecord({"N"})
      /\ iPrevNoteTrack # vsWords'.track
      /\ TookPartInChord)
     => IF OnMarkedRow(iLastTapRow, vsWords'.tick) THEN IsTap(EmittedNote)
        ELSE IF NearForcedMark(vsWords'.tick) THEN IsHOPO(EmittedNote)
        ELSE IsGem(EmittedNote) /\ ~bPrevNoteHOPO'[vsWords'.track]]_vars

\* C28's case: notes on track 0 at tick 48 and on track 1 at tick 49, then a
\* note on track 0 at tick 96, within the threshold of 48 of the note before
\* it and emitted as strum.
C28_Witness ==
  /\ nRead = 3 /\ vsWords.kind = "N" /\ vsWords.track = 0 /\ vsWords.tick = 96
  /\ iHopoResolution = 48
  /\ iPrevNoteTrack = 0
  /\ iPrevNoteMark = [i \in ChartTracks |-> IF i = 0 THEN 96 ELSE IF i = 1 THEN 49 ELSE -1]
  /\ GetTapNote(newNotes, 0, Row(48)) # TAP_EMPTY
  /\ forcedMarks = <<>> /\ iLastTapRow = -1
  /\ IsGem(LastNote)

(***************************************************************************)
(* The two rule sets of the MIDI HOPO predicate.                           *)
(***************************************************************************)
\* The latest last-note tick over all lanes, -1 when no lane has a note.
LatestMark ==
  CHOOSE m \in {gd.iPrevNoteMark[k] : k \in DOMAIN gd.iPrevNoteMark} :
     \A k \in DOMAIN gd.iPrevNoteMark : gd.iPrevNoteMark[k] <= m

\* Some lane other than col has its last note within the threshold of tick t.
OtherLaneWithin(col, t) ==
  \E k \in (DOMAIN gd.iPrevNoteMark) \ {col} :
     /\ gd.iPrevNoteMark[k] # -1
     /\ Abs(t - gd.iPrevNoteMark[k]) <= gd.iHopoResolution

\* C29: for a note with no forced marker and no chord tick at its tick that
\* the HOPO predicate classifies: under the second-game (RB) rules a note on a
\* lane whose last-note tick equals the latest last-note tick over all lanes
\* is a strum whatever the lane scan says; under the first-game (GH) rules a
\* note is a HOPO whenever another lane's last note is within the threshold.
C29_RuleSetsDifferAfterOwnChord ==
  [][\A c \in processed' :
        IsScanned(c) =>
          /\ (/\ gd.hopoRules = "RB_HOPO_Rules"
              /\ gd.iPrevNoteMark[ColumnOf(c)] = LatestMark)
             => IsGem(PlacedNote(c))
          /\ (/\ gd.hopoRules = "GH_HOPO_Rules"
              /\ OtherLaneWithin(ColumnOf(c), c.start))
             => IsHOPO(PlacedNote(c))]_vars

\* C29's case under the second-game rules: lanes 0 and 1 form a chord at tick
\* 0 and lane 0 has a strum at tick 4, within the threshold of lane 1's note.
C29_Witness ==
  /\ gd.hopoRules = "RB_HOPO_Rules"
  /\ gd.iLastForcedHOPO = -1 /\ gd.iLastForcedStrum = -1
  /\ ~gd.bInTapSection /\ ~gd.bInOpenSection
  /\ gd.iLastChordRow = 0
  /\ gd.iPrevNoteMark[0] = 4 /\ gd.iPrevNoteMark[1] = 0
  /\ 4 - 0 <= gd.iHopoResolution
  /\ GetTapNote(midNotes, 0, BeatToNoteRow(0, gd.iResolution)) # TAP_EMPTY
  /\ IsGem(GetTapNote(midNotes, 0, BeatToNoteRow(4, gd.iResolution)))

(***************************************************************************)
(* Tracks with a name organizeMidi does not know.                          *)
(***************************************************************************)
\* The step looks at a track whose name is not one organizeMidi knows.
LooksAtUnknownTrack ==
  /\ trackIdx' = trackIdx - 1
  /\ midFile[trackIdx + 1].type = "Meta"
  /\ midFile[trackIdx + 1].lead = "TrackName"
  /\ midFile[trackIdx + 1].name \notin TrackVocabulary
  /\ midFile[trackIdx + 1].next # "NULL"

NoteBefore(l, t) == GetTapNote(midNotes, l, BeatToNoteRow(t, gd.iResolution))
NoteAfter(l, t) == GetTapNote(midNotes', l, BeatToNoteRow(t, gd.iResolution))

C32_TapMarkerTurnsRowToTap ==
  [][/\ ReadsRecord({"ET"}) =>
          \A l \in ChartTracks :
             LET old == GetTapNote(newNotes, l, Row(vsWords'.tick))
                 new == GetTapNote(newNotes', l, Row(vsWords'.tick))
             IN  IF old = TAP_EMPTY THEN new = TAP_EMPTY
                 ELSE /\ new.type = (IF old.iDuration > 0 THEN "HoldHead" ELSE "Tap")
                      /\ new.iDuration = old.iDuration
     /\ (/\ ReadsRecord({"N"})
         /\ iLastTapRow # -1
         /\ Abs(iLastTapRow - vsWords'.tick) <= 1)
        => /\ EmittedNote.type =
                (IF Row(vsWords'.tick + vsWords'.len) > Row(vsWords'.tick)
                 THEN "HoldHead" ELSE "Tap")
           /\ ~bPrevNoteHOPO'[vsWords'.track]]_vars

\* C32's case: a held note of track 0 at tick 48, then the tap marker of tick
\* 48: the note is a held Tap with its duration.
C32_Witness ==
  /\ nRead = 2 /\ vsWords.kind = "ET" /\ vsWords.tick = 48
  /\ iPrevNoteMark[0] = 48
  /\ GetTapNote(newNotes, 0, Row(48)).type = "HoldHead"
  /\ GetTapNote(newNotes, 0, Row(48)).iDuration = Row(48 + iPrevNoteLength[0]) - Row(48)
  /\ iPrevNoteLength[0] > 0
  /\ \A l \in ChartTracks \ {0} : GetTapNote(newNotes, l, Row(48)) = TAP_EMPTY

(***************************************************************************)
(* Tap sections of the MIDI engine.                                        *)
(***************************************************************************)
\* Among the events of the track consumed so far, a tap-start event is
\* followed by no tap-stop event.
AfterTapStart ==
  \E i \in 1 .. pos :
     /\ tape[i].kind = "sysex" /\ tape[i].pData = SysexTapStart
     /\ \A j \in (i + 1) .. pos :
           ~(tape[j].kind = "sysex" /\ tape[j].pData = SysexTapStop)

\* C33: every normal-lane note closed after a tap-start event (payload
\* 50 53 00 00 FF 04 01 F7) and before the next tap-stop event is emitted as
\* Tap (held Tap when end - start > resolution/2) in its own lane, and is not
\* moved to the open-strum column.
C33_NoteAfterTapStartIsTap ==
  [][\A c \in processed' \ processed :
        (parser = "mid" /\ IsNormalCall(c) /\ AfterTapStart) =>
           NoteAfter(MidiLane(c.idx), c.start).type =
              (IF curTick' - c.start > gd.iResolution \div 2 THEN "HoldHead" ELSE "Tap")]_vars
(***************************************************************************)
(* Claims about ReadBuf and parseHeader.                                   *)
(***************************************************************************)
\* The step hands a resolution and a threshold to parseNoteSection.
HandsToNoteSection == rb.pc = "ReadBuf" /\ rb'.pc = "parseNoteSection"

\* No HOPO-frequency override applies: there is no song.ini, or it has no
\* hopofreq key, or the header had no Resolution line; and no
\* eighthnote_hopo key halves the threshold.
NoHopoOverride ==
  /\ ~songIni.exists \/ ~GetValue(songIni.hopofreq) \/ rb.nResolution = 0
  /\ TRUE \notin songIni.eighthnote_hopo

\* C34: when no HOPO-frequency override applies, the threshold handed to
\* parseNoteSection is a quarter of the resolution handed to it.
C34_DefaultThresholdIsQuarter ==
  [][(HandsToNoteSection /\ NoHopoOverride)
       => iHopoResolution' = resolution' \div 4]_vars

\* The step is parseHeader reading a Resolution line with a song.ini that
\* has the given hopofreq and does not halve the threshold.
ReadsResolutionWith(freq) ==
  /\ rb.pc = "parseHeader"
  /\ rb'.nResolution = rb.nResolution + 1
  /\ songIni.exists
  /\ songIni.hopofreq = {freq}
  /\ TRUE \notin songIni.eighthnote_hopo

\* C35: hopofreq 1 gives a threshold of 3/8 of the resolution, strictly
\* between those of hopofreq 2 and 0; hopofreq 3 gives 3/16 of the
\* resolution, strictly between those of hopofreq 4 and 2.
C35_FractionalThresholds ==
  [][/\ ReadsResolutionWith(1)
          => /\ rb'.iHopoResolution = (3 * rb'.resolution) \div 8
             /\ rb'.iHopoResolution > rb'.resolution \div 4
             /\ rb'.iHopoResolution < rb'.resolution \div 2
     /\ ReadsResolutionWith(3)
          => /\ rb'.iHopoResolution = (3 * rb'.resolution) \div 16
             /\ rb'.iHopoResolution > rb'.resolution \div 8
             /\ rb'.iHopoResolution < rb'.resolution \div 4]_vars

(***************************************************************************)
(* Claims about the frame of the text engine's markers and its lanes.      *)
(***************************************************************************)
\* C37: a forced marker (E * or N 5) leaves every track that is empty at its
\* row empty, and leaves the number of notes of the timeline as it was.
C37_ForcedMarkerAddsNoNote ==
  [][ReadsRecord({"E*", "N5"}) =>
       /\ \A l \in ChartTracks :
            GetTapNote(newNotes, l, Row(vsWords'.tick)) = TAP_EMPTY
              => GetTapNote(newNotes', l, Row(vsWords'.tick)) = TAP_EMPTY
       /\ Cardinality(DOMAIN newNotes') = Cardinality(DOMAIN newNotes)]_vars

\* C38: the lane of a note record that indexes the state of the five tracks
\* is in 0..4; a note record with any other lane (but the marker lane 5) is
\* skipped: parsing goes on with the state of the five tracks, the last
\* track and the timeline as they were.
C38_LaneIndexIsInRange ==
  [][ReadsRecord({"N", "fault"}) =>
       \/ vsWords'.track \in ChartTracks
       \/ /\ vsWords'.kind = "N"
          /\ keepReading'
          /\ UNCHANGED <<newNotes, iPrevNoteMark, iPrevNoteTrack, iPrevNoteLength,
                         bPrevNoteHOPO, iLastChordRow>>]_vars

(***************************************************************************)
(* Claims about the fret layout and the scan of organizeMidi.              *)
(***************************************************************************)
\* The name of the track a pointer of the organizer selects.
SelectedName(ptr) == IF ptr = NULL THEN "" ELSE midFile[ptr + 1].name

\* C39: when organizeMidi has returned with the six-fret layout, the guitar
\* track or the bass track it selected is a GHL-named track; with PART GUITAR
\* and PART GUITAR GHL both in the file, the six-fret layout never comes with
\* the five-fret guitar track selected.
C39_SixFretsOnlyWithGHLTrack ==
  (organized /\ mo.FretType = "SIX_FRETS")
    => /\ \/ SelectedName(mo.guitarTrack) = "PART GUITAR GHL"
          \/ SelectedName(mo.bassTrack) = "PART BASS GHL"
       /\ (\E j \in 1 .. Len(midFile) : midFile[j].name = "PART GUITAR GHL")
            => SelectedName(mo.guitarTrack) # "PART GUITAR"

\* The step is a pass of the loop over a Meta track whose event list ends
\* before the scan finds an event to stop at.
ScansEndedTrack ==
  /\ ld.pc = "organize" /\ ~organized /\ Len(midFile) # 1 /\ trackIdx >= 0
  /\ ReadsNullEvent(mo, trackIdx, midFile[trackIdx + 1])
  /\ <<ld, mo, trackIdx>>' # <<ld, mo, trackIdx>>

\* C40: the scan of a Meta track without a track-name, tempo or
\* time-signature event, or with a name organizeMidi does not know as its
\* last event, stops at the end of the list: organizeMidi does not fault,
\* goes on to the next track and selects nothing but, for the unknown name,
\* the other track.
C40_ScanStopsAtEndOfList ==
  [][ScansEndedTrack =>
       /\ ld' = ld
       /\ trackIdx' = trackIdx - 1
       /\ mo' = IF midFile[trackIdx + 1].lead = "TrackName"
                THEN [mo EXCEPT !.otherTrack = trackIdx]
                ELSE mo]_vars

====
